---------------------------- MODULE Spec2Model ----------------------------
(***************************************************************************)
(* A model of the editing engine of ImGuiColorTextEdit (TextEditor.cpp):   *)
(* the coordinate mapper, the document buffer, the cursor set, the edit    *)
(* commands and the undo history.                                          *)
(*                                                                         *)
(* Glyphs are modelled by their byte (mChar); a line is a sequence of      *)
(* bytes, the document a sequence of lines.  The code indexes from 0, TLA+ *)
(* sequences from 1: every index below is the code's 0-based index and is  *)
(* shifted by one only where a sequence is subscripted.                    *)
(***************************************************************************)
EXTENDS Integers, Sequences, FiniteSets, TLC

VARIABLES
    mLines,                  \* std::vector<Line>: the document
    mState,                  \* EditorState: mCursors, mCurrentCursor, mLastAddedCursor
    mUndoBuffer,             \* std::vector<UndoRecord>
    mUndoIndex,              \* int
    mTabSize,                \* int, 1..8
    mCursorPositionChanged,  \* bool, consumed at the start of Render
    mDraggingSelection,      \* bool, the left mouse button holds a drag
    mReadOnly,               \* bool
    mFind,                   \* the members of the find engine (mFind...)
    mColor,                  \* the members of the colorizer
    fault,                   \* "none", or how the process ended abnormally
    pc,                      \* position of the driver of a specification
    arg,                     \* inputs of the operation under study
    res                      \* its results

vars == << mLines, mState, mUndoBuffer, mUndoIndex, mTabSize,
           mCursorPositionChanged, mDraggingSelection, mReadOnly, mFind,
           mColor, fault, pc, arg, res >>

(***************************************************************************)
(* Bytes                                                                   *)
(***************************************************************************)
TAB == 9
NL == 10
CR == 13
SPACE == 32

\* The glyphs of the documents and inputs below: a letter, a tab, and a
\* two-byte UTF-8 sequence (U+00E9).
GlyphA == << 97 >>
GlyphTab == << TAB >>
GlyphE == << 195, 169 >>
Glyphs == { GlyphA, GlyphTab, GlyphE }

Max(a, b) == IF a > b THEN a ELSE b
Min(a, b) == IF a < b THEN a ELSE b

\* static int UTF8CharLength(char c): the masks, as divisions of the byte.
UTF8CharLength(c) ==
    IF c \div 2 = 126 THEN 6
    ELSE IF c \div 4 = 62 THEN 5
    ELSE IF c \div 8 = 30 THEN 4
    ELSE IF c \div 16 = 14 THEN 3
    ELSE IF c \div 32 = 6 THEN 2
    ELSE 1

\* (c & 0xC0) == 0x80
IsUTFSequence(c) == c \div 64 = 2

(***************************************************************************)
(* Coordinates and cursors                                                 *)
(***************************************************************************)
Coordinates(l, c) == [mLine |-> l, mColumn |-> c]

CoordLT(a, b) ==
    IF a.mLine # b.mLine THEN a.mLine < b.mLine ELSE a.mColumn < b.mColumn
CoordLE(a, b) ==
    IF a.mLine # b.mLine THEN a.mLine < b.mLine ELSE a.mColumn <= b.mColumn
CoordGT(a, b) == CoordLT(b, a)
CoordGE(a, b) == CoordLE(b, a)

Cursor(s, e) == [mInteractiveStart |-> s, mInteractiveEnd |-> e]

GetSelectionStart(cu) ==
    IF CoordLT(cu.mInteractiveStart, cu.mInteractiveEnd)
    THEN cu.mInteractiveStart ELSE cu.mInteractiveEnd
GetSelectionEnd(cu) ==
    IF CoordGT(cu.mInteractiveStart, cu.mInteractiveEnd)
    THEN cu.mInteractiveStart ELSE cu.mInteractiveEnd
HasSelection(cu) == cu.mInteractiveStart # cu.mInteractiveEnd

(***************************************************************************)
(* Coordinate mapper.  `lines' is mLines, `ts' is mTabSize.                *)
(***************************************************************************)
\* An operator's argument is evaluated where the body names it, and inside
\* ENABLED once for every use: the loops and the search bind theirs to
\* values, Value({ F(x) : x \in { a } }) evaluating a once.
Value(S) == CHOOSE v \in S : TRUE

TabSizeAtColumn(ts, c) == ts - (c % ts)

\* `aLine >= mLines.size()': the int is compared as an unsigned value, so a
\* negative line is past the end too.
PastLastLine(lines, aLine) == aLine < 0 \/ aLine >= Len(lines)

\* MoveCharIndexAndColumn: one glyph to the right, as << index, column >>.
MoveCharIndexAndColumn(line, ts, i, c) ==
    LET ch == line[i + 1]
    IN << i + UTF8CharLength(ch),
          IF ch = TAB THEN (c \div ts) * ts + ts ELSE c + 1 >>

RECURSIVE IndexRLoop(_, _, _, _, _)
IndexRLoop(line0, ts0, col0, i0, c0) ==
    Value({ (
        IF i < Len(line) /\ c < col
        THEN LET n == MoveCharIndexAndColumn(line, ts, i, c)
             IN IndexRLoop(line, ts, col, n[1], n[2])
        ELSE i
        ) : line \in { line0 }, ts \in { ts0 }, col \in { col0 }, i \in { i0 }, c \in { c0 } })

GetCharacterIndexR(lines, ts, co) ==
    IF PastLastLine(lines, co.mLine) THEN -1
    ELSE IndexRLoop(lines[co.mLine + 1], ts, co.mColumn, 0, 0)

RECURSIVE IndexLLoop(_, _, _, _, _, _)
IndexLLoop(line0, ts0, col0, i0, c0, tabCoordsLeft0) ==
    Value({ (
        IF i < Len(line) /\ c < col
        THEN LET isTab == line[i + 1] = TAB
                 t1 == IF isTab /\ tabCoordsLeft = 0
                       THEN TabSizeAtColumn(ts, c) ELSE tabCoordsLeft
                 t2 == IF isTab /\ t1 > 0 THEN t1 - 1 ELSE t1
             IN IndexLLoop(line, ts, col,
                           IF t2 = 0 THEN i + UTF8CharLength(line[i + 1]) ELSE i,
                           c + 1, t2)
        ELSE i
        ) : line \in { line0 }, ts \in { ts0 }, col \in { col0 }, i \in { i0 }, c \in { c0 }, tabCoordsLeft \in { tabCoordsLeft0 } })

GetCharacterIndexL(lines, ts, co) ==
    IF PastLastLine(lines, co.mLine) THEN -1
    ELSE IndexLLoop(lines[co.mLine + 1], ts, co.mColumn, 0, 0, 0)

RECURSIVE ColumnLoop(_, _, _, _, _)
ColumnLoop(line, ts, idx, i, c) ==
    IF i < idx /\ i < Len(line)
    THEN LET n == MoveCharIndexAndColumn(line, ts, i, c)
         IN ColumnLoop(line, ts, idx, n[1], n[2])
    ELSE c

GetCharacterColumn(lines, ts, aLine, aIndex) ==
    IF PastLastLine(lines, aLine) THEN 0
    ELSE ColumnLoop(lines[aLine + 1], ts, aIndex, 0, 0)

RECURSIVE MaxColumnLoop(_, _, _, _, _)
MaxColumnLoop(line0, ts0, aLimit0, i0, c0) ==
    Value({ (
        IF i < Len(line)
        THEN LET n == MoveCharIndexAndColumn(line, ts, i, c)
             IN IF aLimit # -1 /\ n[2] > aLimit THEN aLimit
                ELSE MaxColumnLoop(line, ts, aLimit, n[1], n[2])
        ELSE c
        ) : line \in { line0 }, ts \in { ts0 }, aLimit \in { aLimit0 }, i \in { i0 }, c \in { c0 } })

\* GetLineMaxColumn(aLine, aLimit); aLimit = -1 is "no limit".
GetLineMaxColumnLimit(lines, ts, aLine, aLimit) ==
    IF PastLastLine(lines, aLine) THEN 0
    ELSE MaxColumnLoop(lines[aLine + 1], ts, aLimit, 0, 0)

GetLineMaxColumn(lines, ts, aLine) == GetLineMaxColumnLimit(lines, ts, aLine, -1)

\* The tab adjustment of SanitizeCoordinates that always takes the left column.
SnapColumnLeft(out, columnToLeft, columnToRight) == columnToLeft

SnapColumn(out, columnToLeft, columnToRight) ==
    IF out.mColumn - columnToLeft <= columnToRight - out.mColumn
    THEN columnToLeft ELSE columnToRight

ClampColumn(lines, ts, line, column) ==
    IF lines = << >> THEN 0 ELSE GetLineMaxColumnLimit(lines, ts, line, column)

\* The branch of a line past the end, keeping the caller's column.
ClampPastEndKeepColumn(lines, ts, column) == Coordinates(Len(lines) - 1, column)

ClampPastEnd(lines, ts, column) ==
    Coordinates(Len(lines) - 1, GetLineMaxColumn(lines, ts, Len(lines) - 1))

\* The first half of SanitizeCoordinates: line and column brought in range.
ClampCoordinates(lines, ts, line, column) ==
    IF line >= Len(lines)
    THEN IF lines = << >> THEN Coordinates(0, 0)
         ELSE ClampPastEnd(lines, ts, column)
    ELSE Coordinates(line, ClampColumn(lines, ts, line, column))

\* The second half: a column inside a tab moves to the nearer edge of the tab.
SnapToTab(lines0, ts0, out0, charIndex0) ==
    Value({ (
        IF charIndex > -1 /\ charIndex < Len(lines[out.mLine + 1])
           /\ lines[out.mLine + 1][charIndex + 1] = TAB
        THEN Coordinates(out.mLine,
                 SnapColumn(out,
                     GetCharacterColumn(lines, ts, out.mLine, charIndex),
                     GetCharacterColumn(lines, ts, out.mLine,
                                        GetCharacterIndexR(lines, ts, out))))
        ELSE out
        ) : lines \in { lines0 }, ts \in { ts0 }, out \in { out0 }, charIndex \in { charIndex0 } })

SnapToTabAt(lines, ts, out) ==
    SnapToTab(lines, ts, out, GetCharacterIndexL(lines, ts, out))

SanitizeCoordinates(lines, ts, aValue) ==
    SnapToTabAt(lines, ts,
        ClampCoordinates(lines, ts, Max(aValue.mLine, 0), Max(aValue.mColumn, 0)))

(***************************************************************************)
(* The editor as one record, so that a handler is a function from editor   *)
(* to editor.  fault is "none", "assert" once an assert() has failed (a    *)
(* debug build has aborted at that point; the fields carry on as a build   *)
(* with NDEBUG does), or "oob" once a container was accessed outside its   *)
(* bounds (undefined behaviour: the fields show one outcome the build can  *)
(* produce, and nothing further is modelled).                              *)
(***************************************************************************)
Ed == [ mLines |-> mLines, mState |-> mState, mUndoBuffer |-> mUndoBuffer,
        mUndoIndex |-> mUndoIndex, mTabSize |-> mTabSize,
        mCursorPositionChanged |-> mCursorPositionChanged,
        mDraggingSelection |-> mDraggingSelection, fault |-> fault,
        mReadOnly |-> mReadOnly,
        mFind |-> [mFind EXCEPT !.refreshed = FALSE],
        mColor |-> [mColor EXCEPT !.classified = {}],
        u |-> << >>,      \* the mOperations of the UndoRecord a command builds
        coords |-> << >>, \* the coords EnterCharacter collects
        ub |-> "trap" ]   \* how the build resolves erase(end()): see RemoveLine

Commit(e) ==
    /\ mLines' = e.mLines
    /\ mState' = e.mState
    /\ mUndoBuffer' = e.mUndoBuffer
    /\ mUndoIndex' = e.mUndoIndex
    /\ mTabSize' = e.mTabSize
    /\ mCursorPositionChanged' = e.mCursorPositionChanged
    /\ mDraggingSelection' = e.mDraggingSelection
    /\ mReadOnly' = e.mReadOnly
    /\ mFind' = e.mFind
    /\ mColor' = e.mColor
    /\ fault' = e.fault

Ok(e) == e.fault # "oob"
Oob(e) == [e EXCEPT !.fault = "oob"]
\* assert(cond)
AssertThat(e, cond) ==
    IF cond \/ e.fault # "none" THEN e ELSE [e EXCEPT !.fault = "assert"]

\* assert(!mReadOnly)
NotReadOnly(e) == AssertThat(e, ~e.mReadOnly)

(***************************************************************************)
(* The colorizer's members, kept in one record: the dirty range            *)
(* [mColorRangeMin, mColorRangeMax), the flag that asks for a new scan of  *)
(* comments and strings, and the language definition, named by its id.     *)
(* The palette index and the comment flags of a glyph are not kept in the  *)
(* document: CommentScan below computes the flags from the bytes, as the   *)
(* scan does.  classified is a history variable: the lines ColorizeRange   *)
(* has tokenized in the operation that led to the state.                   *)
(***************************************************************************)
IntMax == 2147483647

NoColor ==
    [ mColorRangeMin |-> 0, mColorRangeMax |-> 0, mCheckComments |-> TRUE,
      mLanguageDefinition |-> "None", classified |-> {} ]

\* LanguageDefinition::mTokenize != nullptr
HasTokenize(language) == language = "Cpp"

\* Colorize(aFromLine = 0, aLines = -1)
Colorize(e, aFromLine, aLines) ==
    IF ~Ok(e) THEN e
    ELSE LET toLine == IF aLines = -1 THEN Len(e.mLines)
                       ELSE Min(Len(e.mLines), aFromLine + aLines)
             lo == Max(0, Min(e.mColor.mColorRangeMin, aFromLine))
             hi == Max(lo, Max(e.mColor.mColorRangeMax, toLine))
         IN [e EXCEPT !.mColor.mColorRangeMin = lo,
                      !.mColor.mColorRangeMax = hi,
                      !.mColor.mCheckComments = TRUE]

ColorizeAll(e) == Colorize(e, 0, -1)

\* SetLanguageDefinition(aValue)
SetLanguageDefinition(e, aValue) ==
    IF ~Ok(e) THEN e
    ELSE IF aValue = "None"
    THEN [e EXCEPT !.mColor.mLanguageDefinition = "None"]
    ELSE ColorizeAll([e EXCEPT !.mColor.mLanguageDefinition = aValue])

\* The lines ColorizeRange(aFromLine, aToLine) tokenizes.
ColorizeRange(e, aFromLine, aToLine) ==
    IF Len(e.mLines) = 0 \/ aFromLine >= aToLine
       \/ e.mColor.mLanguageDefinition = "None"
    THEN {}
    ELSE aFromLine .. Max(0, Min(Len(e.mLines), aToLine)) - 1

RegexIncrement == 10
TokenizeIncrement == 10000

\* ColorizeInternal() with the dirty range cleared behind every slice.
ColorizeInternalDropping(e) ==
    IF ~Ok(e) \/ Len(e.mLines) = 0 \/ e.mColor.mLanguageDefinition = "None"
    THEN e
    ELSE LET lo == e.mColor.mColorRangeMin
             hi == e.mColor.mColorRangeMax
             increment == IF HasTokenize(e.mColor.mLanguageDefinition)
                          THEN TokenizeIncrement ELSE RegexIncrement
             to == Min(lo + increment, hi)
             e1 == [e EXCEPT !.mColor.mCheckComments = FALSE]
         IN IF lo < hi
            THEN [e1 EXCEPT !.mColor.classified = ColorizeRange(e, lo, to),
                            !.mColor.mColorRangeMin = IntMax,
                            !.mColor.mColorRangeMax = 0]
            ELSE e1

\* ColorizeInternal(): the scan of comments and strings, then one slice of
\* the dirty range.
ColorizeInternal(e) ==
    IF ~Ok(e) \/ Len(e.mLines) = 0 \/ e.mColor.mLanguageDefinition = "None"
    THEN e
    ELSE LET lo == e.mColor.mColorRangeMin
             hi == e.mColor.mColorRangeMax
             increment == IF HasTokenize(e.mColor.mLanguageDefinition)
                          THEN TokenizeIncrement ELSE RegexIncrement
             to == Min(lo + increment, hi)
             e1 == [e EXCEPT !.mColor.mCheckComments = FALSE]
         IN IF lo < hi
            THEN [e1 EXCEPT !.mColor.classified = ColorizeRange(e, lo, to),
                            !.mColor.mColorRangeMin =
                                IF hi = to THEN IntMax ELSE to,
                            !.mColor.mColorRangeMax =
                                IF hi = to THEN 0 ELSE hi]
            ELSE e1

(***************************************************************************)
(* The find engine's members, kept in one record.  mFindBuffer and         *)
(* mReplaceBuffer hold the bytes before the terminating zero.  The         *)
(* highlight cache is the set of its segments, each with the line it is    *)
(* filed under.  The two timers count units of 0.02 s; io.DeltaTime is an  *)
(* input of every frame.  computedFrom is a history variable: the document *)
(* RefreshFindResults last searched; acted is another: whether a find or   *)
(* replace command has used a result while the document differed from      *)
(* computedFrom; refreshed is a third: whether the operation that led to   *)
(* the state has called RefreshFindResults.                                *)
(***************************************************************************)
SearchResult(s, e) == [mStart |-> s, mEnd |-> e]

NoFind ==
    [ mFindBuffer |-> << >>, mReplaceBuffer |-> << >>,
      mShowFindPanel |-> FALSE,
      mFindCaseSensitive |-> FALSE, mFindWholeWord |-> FALSE,
      mFindWrapAround |-> TRUE, mFindSelectionOnly |-> FALSE,
      mFindSelectionRangeValid |-> FALSE,
      mFindSelectionRangeStart |-> Coordinates(0, 0),
      mFindSelectionRangeEnd |-> Coordinates(0, 0),
      mFindResults |-> << >>, mFindResultIndex |-> -1,
      mFindResultsDirty |-> TRUE, mFindRefreshPending |-> FALSE,
      mFindLastUndoIndex |-> -1, mFindLastUndoBufferSize |-> -1,
      mFindHighlightsCache |-> {},
      mFindUseRegex |-> FALSE,
      mFindRefreshTimer |-> 0,
      mFindStatusMessage |-> "", mFindStatusTimer |-> 0,
      computedFrom |-> << >>, acted |-> FALSE, refreshed |-> FALSE ]

\* Times are counted in units of 0.02 s.
FIND_REFRESH_DEFER_SECONDS == 6
\* 2.0f, 2.5f and 3.0f, the life times of the status messages
StatusShort == 100
StatusMedium == 125
StatusLong == 150

\* `mFindStatusMessage = message; mFindStatusTimer = seconds;'
SetFindStatus(e, message, seconds) ==
    IF ~Ok(e) THEN e
    ELSE [e EXCEPT !.mFind.mFindStatusMessage = message,
                   !.mFind.mFindStatusTimer = seconds]

\* MarkFindResultsDirty that marks nothing
MarkFindResultsDirtySkipped(e, deferRefresh) == e

\* MarkFindResultsDirty(deferRefresh)
MarkFindResultsDirty(e, deferRefresh) ==
    [e EXCEPT !.mFind.mFindResultsDirty = TRUE,
              !.mFind.mFindRefreshPending = deferRefresh,
              !.mFind.mFindRefreshTimer =
                  IF deferRefresh THEN FIND_REFRESH_DEFER_SECONDS ELSE 0]

\* mFindHighlightsCache.clear()
ClearFindHighlights(e) == [e EXCEPT !.mFind.mFindHighlightsCache = {}]

\* `MarkFindResultsDirty(true); mFindHighlightsCache.clear();' at the head of
\* InsertTextAt and DeleteRange
MarkEdited(e) == ClearFindHighlights(MarkFindResultsDirty(e, TRUE))

CursorAt(e, c) == e.mState.mCursors[c + 1]
LiveCursors(e) == 0 .. e.mState.mCurrentCursor
LineCount(e) == Len(e.mLines)
LineAt(e, l) == e.mLines[l + 1]

IndexR(e, co) == GetCharacterIndexR(e.mLines, e.mTabSize, co)
IndexL(e, co) == GetCharacterIndexL(e.mLines, e.mTabSize, co)
Column(e, l, i) == GetCharacterColumn(e.mLines, e.mTabSize, l, i)
MaxColumn(e, l) == GetLineMaxColumn(e.mLines, e.mTabSize, l)
Sanitize(e, co) == SanitizeCoordinates(e.mLines, e.mTabSize, co)

SubLine(line, from, to) ==
    IF to <= from THEN << >> ELSE SubSeq(line, from + 1, to)

\* SetCursorPosition(aPosition, aCursor, aClearSelection)
SetCursorPosition(e, aPosition, aCursor, aClearSelection) ==
    IF ~Ok(e) THEN e
    ELSE [e EXCEPT !.mCursorPositionChanged = TRUE,
                   !.mState.mCursors[aCursor + 1] =
                       Cursor(IF aClearSelection THEN aPosition
                              ELSE @.mInteractiveStart, aPosition)]

\* OnLineChanged(true, ...): the static map cursorCharIndices, as a function
\* from the cursors it holds to their new glyph indices.
CursorCharIndices(e, aLine, aColumn, aCharCount, aDeleted) ==
    LET hit == { c \in LiveCursors(e) :
                   /\ CursorAt(e, c).mInteractiveEnd.mLine = aLine
                   /\ CursorAt(e, c).mInteractiveEnd.mColumn > aColumn
                   /\ ~HasSelection(CursorAt(e, c)) }
    IN [ c \in hit |->
           IndexR(e, Coordinates(aLine, CursorAt(e, c).mInteractiveEnd.mColumn))
             + (IF aDeleted THEN -aCharCount ELSE aCharCount) ]

\* OnLineChanged(false, ...): place the recorded cursors on the changed line.
RECURSIVE ApplyCharIndices(_, _, _, _)
ApplyCharIndices(e, aLine, idx, todo) ==
    IF todo = {} THEN e
    ELSE LET c == CHOOSE x \in todo : TRUE
         IN ApplyCharIndices(
                SetCursorPosition(e, Coordinates(aLine, Column(e, aLine, idx[c])),
                                  c, TRUE),
                aLine, idx, todo \ {c})

ApplyAllCharIndices(e, aLine, idx) == ApplyCharIndices(e, aLine, idx, DOMAIN idx)

\* RemoveGlyphsFromLine(aLine, aStartChar, aEndChar); aEndChar = -1: to the end.
RemoveGlyphsFromLine(e, aLine, aStartChar, aEndChar) ==
    IF ~Ok(e) THEN e
    ELSE IF aLine < 0 \/ aLine >= LineCount(e) THEN Oob(e)
    ELSE LET line == LineAt(e, aLine)
             last == IF aEndChar = -1 THEN Len(line) ELSE aEndChar
         IN IF aStartChar < 0 \/ aStartChar > last \/ last > Len(line)
            THEN Oob(e)
            ELSE LET column == Column(e, aLine, aStartChar)
                     idx == CursorCharIndices(e, aLine, column,
                                              aEndChar - aStartChar, TRUE)
                     e1 == [e EXCEPT !.mLines[aLine + 1] =
                               SubLine(line, 0, aStartChar)
                                 \o SubLine(line, last, Len(line))]
                 IN ApplyAllCharIndices(e1, aLine, idx)

\* AddGlyphsToLine(aLine, aTargetIndex, aSourceStart, aSourceEnd)
AddGlyphsToLine(e, aLine, aTargetIndex, glyphs) ==
    IF ~Ok(e) THEN e
    ELSE IF aLine < 0 \/ aLine >= LineCount(e) THEN Oob(e)
    ELSE LET line == LineAt(e, aLine)
         IN IF aTargetIndex < 0 \/ aTargetIndex > Len(line) THEN Oob(e)
            ELSE LET targetColumn == Column(e, aLine, aTargetIndex)
                     idx == CursorCharIndices(e, aLine, targetColumn,
                                              Len(glyphs), FALSE)
                     e1 == [e EXCEPT !.mLines[aLine + 1] =
                               SubLine(line, 0, aTargetIndex) \o glyphs
                                 \o SubLine(line, aTargetIndex, Len(line))]
                 IN ApplyAllCharIndices(e1, aLine, idx)

\* AddGlyphToLine(aLine, aTargetIndex, aGlyph)
AddGlyphToLine(e, aLine, aTargetIndex, aGlyph) ==
    AddGlyphsToLine(e, aLine, aTargetIndex, << aGlyph >>)

InsertAt(s, i, x) == SubLine(s, 0, i) \o << x >> \o SubLine(s, i, Len(s))
RemoveAt(s, i) == SubLine(s, 0, i) \o SubLine(s, i + 1, Len(s))

\* The loop of InsertLine / RemoveLine over the live cursors, in index order.
RECURSIVE ShiftCursorLines(_, _, _, _, _)
ShiftCursorLines(e, c, aIndex, delta, handled) ==
    IF c > e.mState.mCurrentCursor THEN e
    ELSE LET pos == CursorAt(e, c).mInteractiveEnd
         IN ShiftCursorLines(
                IF pos.mLine >= aIndex /\ c \notin handled
                THEN SetCursorPosition(e,
                         Coordinates(pos.mLine + delta, pos.mColumn), c, TRUE)
                ELSE e,
                c + 1, aIndex, delta, handled)

\* InsertLine(aIndex)
InsertLineWritable(e, aIndex) ==
    IF ~Ok(e) THEN e
    ELSE IF aIndex < 0 \/ aIndex > LineCount(e) THEN Oob(e)
    ELSE ShiftCursorLines([e EXCEPT !.mLines = InsertAt(@, aIndex, << >>)],
                          0, aIndex, 1, {})

\* InsertLine(aIndex)
InsertLine(e, aIndex) ==
    InsertLineWritable(NotReadOnly(e), aIndex)

\* `while (d-- > 0 && *aValue != '\0') AddGlyphToLine(line, cindex++, *aValue++)'
RECURSIVE AddBytes(_, _, _, _)
AddBytes(e, aLine, cindex, bytes) ==
    IF bytes = << >> THEN e
    ELSE AddBytes(AddGlyphToLine(e, aLine, cindex, Head(bytes)),
                  aLine, cindex + 1, Tail(bytes))

\* RemoveLine(aIndex, aHandledCursors)
\* erase(begin() + aIndex) with aIndex = size() is undefined: the build
\* traps, or, as libstdc++'s _M_erase does (move nothing, --_M_finish,
\* destroy), drops the last line.
RemoveLineWritable(e, aIndex, handled) ==
    IF ~Ok(e) THEN e
    ELSE LET e0 == AssertThat(e, LineCount(e) > 1)
         IN IF aIndex = LineCount(e0) /\ e0.ub = "drop-last"
            THEN Oob([e0 EXCEPT !.mLines = SubLine(@, 0, Len(@) - 1)])
            ELSE IF aIndex < 0 \/ aIndex >= LineCount(e0) THEN Oob(e0)
            ELSE ShiftCursorLines([e0 EXCEPT !.mLines = RemoveAt(@, aIndex)],
                                  0, aIndex, -1, handled)

\* RemoveLine(aIndex, aHandledCursors)
RemoveLine(e, aIndex, handled) ==
    RemoveLineWritable(NotReadOnly(e), aIndex, handled)

\* RemoveLines(aStart, aEnd): the lines aStart .. aEnd - 1
RemoveLinesWritable(e, aStart, aEnd) ==
    IF ~Ok(e) THEN e
    ELSE LET e0 == AssertThat(AssertThat(e, aEnd >= aStart),
                              LineCount(e) > aEnd - aStart)
             n == aEnd - aStart
             shift(co) == IF co.mLine >= aStart
                          THEN Coordinates(Max(co.mLine - n, 0), co.mColumn)
                          ELSE co
         IN IF aStart < 0 \/ aEnd < aStart \/ aEnd > LineCount(e0) THEN Oob(e0)
            ELSE [e0 EXCEPT
                    !.mLines = SubLine(@, 0, aStart) \o SubLine(@, aEnd, Len(@)),
                    !.mState.mCursors =
                        [c \in DOMAIN @ |->
                            IF c - 1 <= e0.mState.mCurrentCursor
                            THEN Cursor(shift(@[c].mInteractiveStart),
                                        shift(@[c].mInteractiveEnd))
                            ELSE @[c]]]

\* RemoveLines(aStart, aEnd)
RemoveLines(e, aStart, aEnd) ==
    RemoveLinesWritable(NotReadOnly(e), aStart, aEnd)

\* The loop of DeleteRange's cross-line branch that moves up the cursors of
\* the line being joined; it stops at the first cursor below that line.
RECURSIVE MoveUpCursorsOfJoinedLine(_, _, _, _)
MoveUpCursorsOfJoinedLine(e, c, aStart, aEnd) ==
    IF ~Ok(e) \/ c > e.mState.mCurrentCursor THEN e
    ELSE LET cu == CursorAt(e, c)
         IN IF GetSelectionStart(cu) = aStart /\ GetSelectionEnd(cu) = aEnd
            THEN MoveUpCursorsOfJoinedLine(e, c + 1, aStart, aEnd)
            ELSE IF cu.mInteractiveEnd.mLine > aEnd.mLine THEN e
            ELSE IF cu.mInteractiveEnd.mLine # aEnd.mLine
            THEN MoveUpCursorsOfJoinedLine(e, c + 1, aStart, aEnd)
            ELSE LET otherCursorEndCharIndex == IndexR(e, cu.mInteractiveEnd)
                     otherCursorStartCharIndex == IndexR(e, cu.mInteractiveStart)
                     base == IndexR(e, aStart)
                     targetEndCoords ==
                         Coordinates(aStart.mLine,
                             Column(e, aStart.mLine, base + otherCursorEndCharIndex))
                     targetStartCoords ==
                         Coordinates(aStart.mLine,
                             Column(e, aStart.mLine, base + otherCursorStartCharIndex))
                 IN MoveUpCursorsOfJoinedLine(
                        SetCursorPosition(
                            SetCursorPosition(e, targetStartCoords, c, TRUE),
                            targetEndCoords, c, FALSE),
                        c + 1, aStart, aEnd)

\* DeleteRange, cross-line branch: the rest of the end line joins the start
\* line, its cursors move up, and the lines in between go.
JoinLines(e2, aStart, aEnd) ==
    IF ~Ok(e2) \/ ~(aStart.mLine < aEnd.mLine) THEN e2
    ELSE RemoveLines(
             MoveUpCursorsOfJoinedLine(
                 AddGlyphsToLine(e2, aStart.mLine,
                                 Len(LineAt(e2, aStart.mLine)),
                                 LineAt(e2, aEnd.mLine)),
                 0, aStart, aEnd),
             aStart.mLine + 1, aEnd.mLine + 1)

\* DeleteRange from `if (aStart.mLine == aEnd.mLine)' on; start and end are
\* the glyph indices it has computed.
DeleteGlyphs(e0, aStart, aEnd, start, end) ==
    IF aStart.mLine = aEnd.mLine
    THEN RemoveGlyphsFromLine(e0, aStart.mLine, start,
             IF aEnd.mColumn >= MaxColumn(e0, aStart.mLine) THEN -1 ELSE end)
    ELSE JoinLines(
             RemoveGlyphsFromLine(
                 RemoveGlyphsFromLine(e0, aStart.mLine, start, -1),
                 aEnd.mLine, 0, end),
             aStart, aEnd)

DeleteRangeAsserted(e0, aStart, aEnd) ==
    IF aEnd = aStart THEN e0
    ELSE DeleteGlyphs(e0, aStart, aEnd, IndexL(e0, aStart), IndexR(e0, aEnd))

\* DeleteRange(aStart, aEnd)
DeleteRange(e, aStart, aEnd) ==
    IF ~Ok(e) THEN e
    ELSE DeleteRangeAsserted(
             MarkEdited(NotReadOnly(AssertThat(e, CoordGE(aEnd, aStart)))),
             aStart, aEnd)

\* InsertTextAt, '\n' in the middle of a line: the rest of the line moves to
\* the new line a has below it.
SplitLine(a, l, cindex) ==
    RemoveGlyphsFromLine(
        AddGlyphsToLine(a, l + 1, 0,
                        SubLine(LineAt(a, l), cindex, Len(LineAt(a, l)))),
        l, cindex, -1)

\* InsertTextAt(aWhere, aValue): the loop over the bytes of aValue.  The
\* result is << editor, aWhere, totalLines >>.
RECURSIVE InsertTextLoop(_, _, _, _, _, _)
\* `aWhere.mColumn = GetCharacterColumn(aWhere.mLine, cindex)', and on
InsertTextColumn(e1, l, cindex, totalLines, aValue, k) ==
    InsertTextLoop(e1, Coordinates(l, Column(e1, l, cindex)), cindex,
                   totalLines, aValue, k)

InsertTextLoop(e, aWhere, cindex, totalLines, aValue, k) ==
    IF ~Ok(e) \/ k > Len(aValue) THEN << e, aWhere, totalLines >>
    ELSE LET ch == aValue[k]
             l == aWhere.mLine
             d == Min(UTF8CharLength(ch), Len(aValue) - k + 1)
         IN IF ch = CR
            THEN InsertTextLoop(e, aWhere, cindex, totalLines, aValue, k + 1)
            ELSE IF PastLastLine(e.mLines, l)
            THEN << Oob(e), aWhere, totalLines >>
            ELSE IF ch = NL
            THEN InsertTextLoop(
                     IF cindex < Len(LineAt(e, l))
                     THEN SplitLine(InsertLine(e, l + 1), l, cindex)
                     ELSE InsertLine(e, l + 1),
                     Coordinates(l + 1, 0), 0, totalLines + 1, aValue, k + 1)
            ELSE InsertTextColumn(
                     AddBytes(e, l, cindex, SubSeq(aValue, k, k + d - 1)),
                     l, cindex + d, totalLines, aValue, k + d)

\* InsertTextAt(aWhere, aValue), as << editor, aWhere on return, totalLines >>
InsertTextAt(e, aWhere, aValue) ==
    IF ~Ok(e) THEN << e, aWhere, 0 >>
    ELSE InsertTextLoop(MarkEdited(NotReadOnly(e)), aWhere, IndexR(e, aWhere),
                        0, aValue, 1)

\* The copy loop of GetText(aStart, aEnd).
RECURSIVE GetTextLoop(_, _, _, _, _, _)
GetTextLoop(lines, lstart, lend, istart, iend, result) ==
    IF ~(istart < iend \/ lstart < lend) \/ lstart >= Len(lines) THEN result
    ELSE IF istart < Len(lines[lstart + 1])
    THEN GetTextLoop(lines, lstart, lend, istart + 1, iend,
                     Append(result, lines[lstart + 1][istart + 1]))
    ELSE GetTextLoop(lines, lstart + 1, lend, 0, iend, Append(result, NL))

\* GetText(aStart, aEnd) reads mLines[i] for lstart <= i < lend to size its
\* result, and mLines[lstart] in its loop.
GetTextReadsPastEnd(e, aStart, aEnd) ==
    \/ aStart.mLine < 0 /\ (IndexR(e, aStart) < IndexR(e, aEnd) \/ aStart.mLine < aEnd.mLine)
    \/ aStart.mLine >= 0 /\ aStart.mLine < aEnd.mLine /\ aEnd.mLine > LineCount(e)

GetText(e, aStart, aEnd) ==
    IF GetTextReadsPastEnd(e, aStart, aEnd) THEN << >>
    ELSE GetTextLoop(e.mLines, aStart.mLine, aEnd.mLine,
                     IndexR(e, aStart), IndexR(e, aEnd), << >>)

\* A call of GetText(aStart, aEnd): its assert and its reads, on the editor.
GetTextChecked(e, aStart, aEnd) ==
    IF ~Ok(e) THEN e
    ELSE LET e0 == AssertThat(e, CoordLT(aStart, aEnd))
         IN IF GetTextReadsPastEnd(e0, aStart, aEnd) THEN Oob(e0) ELSE e0

\* GetSelectedText(aCursor)
GetSelectedText(e, aCursor) ==
    LET cu == CursorAt(e, aCursor)
    IN IF ~HasSelection(cu) THEN << >>
       ELSE GetText(e, GetSelectionStart(cu), GetSelectionEnd(cu))

GetSelectedTextChecked(e, aCursor) ==
    LET cu == CursorAt(e, aCursor)
    IN IF ~Ok(e) \/ ~HasSelection(cu) THEN e
       ELSE GetTextChecked(e, GetSelectionStart(cu), GetSelectionEnd(cu))

\* DeleteSelection(aCursor)
DeleteSelection(e, aCursor) ==
    IF ~Ok(e) THEN e
    ELSE LET cu == CursorAt(e, aCursor)
             newCursorPos == GetSelectionStart(cu)
         IN IF GetSelectionEnd(cu) = GetSelectionStart(cu) THEN e
            ELSE Colorize(
                     SetCursorPosition(
                         DeleteRange(e, newCursorPos, GetSelectionEnd(cu)),
                         newCursorPos, aCursor, TRUE),
                     newCursorPos.mLine, 1)

(***************************************************************************)
(* Undo history                                                            *)
(***************************************************************************)
UndoOperation(text, start, end, type) ==
    [mText |-> text, mStart |-> start, mEnd |-> end, mType |-> type]

UndoRecord(ops, before, after) ==
    [mOperations |-> ops, mBefore |-> before, mAfter |-> after]

\* AddUndo with the redo tail kept: push_back instead of resize + back().
AddUndoKeepTail(e, u) ==
    [e EXCEPT !.mUndoBuffer = Append(@, u), !.mUndoIndex = @ + 1]

\* AddUndo(aValue)
AddUndo(e, u) ==
    IF ~Ok(e) THEN e
    ELSE [NotReadOnly(e) EXCEPT
              !.mUndoBuffer = Append(SubLine(@, 0, e.mUndoIndex), u),
              !.mUndoIndex = @ + 1]

CanUndo(e) == e.mUndoIndex > 0
CanRedo(e) == e.mUndoIndex < Len(e.mUndoBuffer)

\* `aEditor->mState = ...' at the end of UndoRecord::Undo and Redo
SetState(e, st) == IF ~Ok(e) THEN e ELSE [e EXCEPT !.mState = st]

\* The lines UndoRecord::Undo asks Colorize for after it has replayed an
\* operation, and those UndoRecord::Redo asks for.
UndoColorizeLines(operation) == operation.mEnd.mLine - operation.mStart.mLine + 2
RedoColorizeLines(operation) == operation.mEnd.mLine - operation.mStart.mLine + 1

\* The replay loop of UndoRecord::Undo, from operation i down to 1.
RECURSIVE UndoOperations(_, _, _)
UndoOperations(e, ops, i) ==
    IF ~Ok(e) \/ i < 1 THEN e
    ELSE UndoOperations(
             IF ops[i].mText = << >> THEN e
             ELSE Colorize(
                      IF ops[i].mType = "Delete"
                      THEN InsertTextAt(e, ops[i].mStart, ops[i].mText)[1]
                      ELSE DeleteRange(e, ops[i].mStart, ops[i].mEnd),
                      ops[i].mStart.mLine - 1, UndoColorizeLines(ops[i])),
             ops, i - 1)

\* UndoRecord::Undo(aEditor)
RecordUndo(e, u) ==
    SetState(UndoOperations(e, u.mOperations, Len(u.mOperations)), u.mBefore)

\* The replay loop of UndoRecord::Redo, from operation i up to the last.
RECURSIVE RedoOperations(_, _, _)
RedoOperations(e, ops, i) ==
    IF ~Ok(e) \/ i > Len(ops) THEN e
    ELSE RedoOperations(
             IF ops[i].mText = << >> THEN e
             ELSE Colorize(
                      IF ops[i].mType = "Delete"
                      THEN DeleteRange(e, ops[i].mStart, ops[i].mEnd)
                      ELSE InsertTextAt(e, ops[i].mStart, ops[i].mText)[1],
                      ops[i].mStart.mLine - 1, RedoColorizeLines(ops[i])),
             ops, i + 1)

\* UndoRecord::Redo(aEditor)
RecordRedo(e, u) ==
    SetState(RedoOperations(e, u.mOperations, 1), u.mAfter)

\* Undo(aSteps) with `assert(CanUndo())' in its loop instead of the test.
RECURSIVE UndoStepsAsserting(_, _)
UndoStepsAsserting(e, aSteps) ==
    IF Ok(e) /\ aSteps > 0
    THEN IF CanUndo(e)
         THEN UndoStepsAsserting(RecordUndo([e EXCEPT !.mUndoIndex = @ - 1],
                                            e.mUndoBuffer[e.mUndoIndex]),
                                 aSteps - 1)
         ELSE AssertThat(e, FALSE)
    ELSE e

\* TextEditor::Undo(aSteps)
RECURSIVE UndoSteps(_, _)
UndoSteps(e, aSteps) ==
    IF Ok(e) /\ CanUndo(e) /\ aSteps > 0
    THEN UndoSteps(RecordUndo([e EXCEPT !.mUndoIndex = @ - 1],
                              e.mUndoBuffer[e.mUndoIndex]),
                   aSteps - 1)
    ELSE e

\* TextEditor::Redo(aSteps)
RECURSIVE RedoSteps(_, _)
RedoSteps(e, aSteps) ==
    IF Ok(e) /\ CanRedo(e) /\ aSteps > 0
    THEN RedoSteps(RecordRedo([e EXCEPT !.mUndoIndex = @ + 1],
                              e.mUndoBuffer[e.mUndoIndex + 1]),
                   aSteps - 1)
    ELSE e

(***************************************************************************)
(* Cursor set                                                              *)
(***************************************************************************)
\* A default-constructed EditorState: one cursor at the origin.
OneCursor == [mCursors |-> << Cursor(Coordinates(0, 0), Coordinates(0, 0)) >>,
              mCurrentCursor |-> 0, mLastAddedCursor |-> 0]
NoUndo == << >>

AnyCursorHasSelection(e) == \E c \in LiveCursors(e) : HasSelection(CursorAt(e, c))
AllCursorsHaveSelection(e) == \A c \in LiveCursors(e) : HasSelection(CursorAt(e, c))

GetSanitizedCursorCoordinates(e, c) == Sanitize(e, CursorAt(e, c).mInteractiveEnd)

\* GetLastAddedCursorIndex without the test against mCurrentCursor
GetLastAddedCursorIndexStored(st) == st.mLastAddedCursor

\* EditorState::GetLastAddedCursorIndex
GetLastAddedCursorIndex(st) ==
    IF st.mLastAddedCursor > st.mCurrentCursor THEN 0 ELSE st.mLastAddedCursor

\* EditorState::AddCursor: resize(mCurrentCursor + 1) keeps an entry that is
\* already there and value-initialises a new one.
AddCursor(e) ==
    LET n == e.mState.mCurrentCursor + 1
        cs == e.mState.mCursors
    IN [e EXCEPT !.mState =
          [mCursors |-> IF Len(cs) >= n + 1 THEN SubSeq(cs, 1, n + 1)
                        ELSE Append(cs, Cursor(Coordinates(0, 0), Coordinates(0, 0))),
           mCurrentCursor |-> n,
           mLastAddedCursor |-> n]]

\* std::sort by selection start, as a stable insertion sort of the live
\* cursors (the cursors that compare equal keep their order).
RECURSIVE InsertSorted(_, _)
InsertSorted(sorted, cu) ==
    IF sorted = << >> THEN << cu >>
    ELSE IF CoordLT(GetSelectionStart(cu), GetSelectionStart(Head(sorted)))
    THEN << cu >> \o sorted
    ELSE << Head(sorted) >> \o InsertSorted(Tail(sorted), cu)

RECURSIVE SortCursors(_)
SortCursors(cs) ==
    IF cs = << >> THEN << >>
    ELSE InsertSorted(SortCursors(SubSeq(cs, 1, Len(cs) - 1)), cs[Len(cs)])

\* The loop after the sort: the lowest live index whose head is the head of
\* the cursor that was last added.
LastAddedAfterSort(cs, n, pos, old) ==
    LET hit == { c \in 0 .. n : cs[c + 1].mInteractiveEnd = pos }
    IN IF hit = {} THEN old
       ELSE CHOOSE c \in hit : \A d \in hit : c <= d

\* EditorState::SortCursorsFromTopToBottom, with `live' what std::sort has
\* made of the live cursors.
SortCursorsFromTopToBottomWith(st, live) ==
    LET n == st.mCurrentCursor
        lastAddedCursorPos == st.mCursors[GetLastAddedCursorIndex(st) + 1].mInteractiveEnd
        cs == live \o SubSeq(st.mCursors, n + 2, Len(st.mCursors))
    IN [mCursors |-> cs, mCurrentCursor |-> n,
        mLastAddedCursor |-> LastAddedAfterSort(cs, n, lastAddedCursorPos,
                                                st.mLastAddedCursor)]

\* EditorState::SortCursorsFromTopToBottom, std::sort sorting by insertion
\* (what libstdc++ does with up to 16 elements)
SortCursorsFromTopToBottom(st) ==
    SortCursorsFromTopToBottomWith(st,
        SortCursors(SubSeq(st.mCursors, 1, st.mCurrentCursor + 1)))

\* The first loop of MergeCursorsIfPossible, pairs (c - 1, c) from the last
\* pair down: << cursors, cursorsToDelete >>.
RECURSIVE MergePairs(_, _, _, _)
MergePairs(cs, c, del, anySel) ==
    IF c < 1 THEN << cs, del >>
    ELSE LET pcu == cs[c]
             cu == cs[c + 1]
         IN IF anySel
            THEN IF CoordGE(GetSelectionEnd(pcu), GetSelectionEnd(cu))
                 THEN MergePairs(cs, c - 1, del \cup {c}, anySel)
                 ELSE IF CoordGT(GetSelectionEnd(pcu), GetSelectionStart(cu))
                 THEN MergePairs(
                          [cs EXCEPT ![c] = Cursor(GetSelectionStart(pcu),
                                                   GetSelectionEnd(cu))],
                          c - 1, del \cup {c}, anySel)
                 ELSE MergePairs(cs, c - 1, del, anySel)
            ELSE IF pcu.mInteractiveEnd = cu.mInteractiveEnd
                 THEN MergePairs(cs, c - 1, del \cup {c}, anySel)
                 ELSE MergePairs(cs, c - 1, del, anySel)

RECURSIVE EraseCursors(_, _, _)
EraseCursors(cs, c, del) ==
    IF c < 0 THEN cs
    ELSE EraseCursors(IF c \in del THEN RemoveAt(cs, c) ELSE cs, c - 1, del)

\* MergeCursorsIfPossible on the editor state
MergeCursorsIfPossible(st) ==
    LET anySel == \E c \in 0 .. st.mCurrentCursor : HasSelection(st.mCursors[c + 1])
        m == MergePairs(st.mCursors, st.mCurrentCursor, {}, anySel)
    IN [mCursors |-> EraseCursors(m[1], st.mCurrentCursor, m[2]),
        mCurrentCursor |-> st.mCurrentCursor - Cardinality(m[2]),
        mLastAddedCursor |-> st.mLastAddedCursor]

\* OnCursorPositionChanged: the bracket match only reads; then sort and merge
\* unless a drag is in progress.
OnCursorPositionChanged(e) ==
    IF ~Ok(e) \/ e.mDraggingSelection THEN e
    ELSE [e EXCEPT !.mState =
             MergeCursorsIfPossible(SortCursorsFromTopToBottom(@))]

\* ClearSelections
ClearSelections(e) ==
    [e EXCEPT !.mState.mCursors =
        [c \in DOMAIN @ |->
            IF c - 1 <= e.mState.mCurrentCursor
            THEN Cursor(GetSelectionEnd(@[c]), GetSelectionEnd(@[c]))
            ELSE @[c]]]

\* ClearExtraCursors
ClearExtraCursors(e) == [e EXCEPT !.mState.mCurrentCursor = 0]

\* SetSelection(aStart, aEnd, aCursor)
SetSelection(e, aStart, aEnd, aCursor) ==
    LET minCoords == Coordinates(0, 0)
        maxLine == LineCount(e) - 1
        maxCoords == Coordinates(maxLine, MaxColumn(e, maxLine))
        clamp(co) == IF CoordLT(co, minCoords) THEN minCoords
                     ELSE IF CoordGT(co, maxCoords) THEN maxCoords ELSE co
    IN SetCursorPosition(
           [e EXCEPT !.mState.mCursors[aCursor + 1].mInteractiveStart = clamp(aStart)],
           clamp(aEnd), aCursor, FALSE)

(***************************************************************************)
(* Cursor movement                                                         *)
(***************************************************************************)
\* for (int c = 0; c <= mState.mCurrentCursor; c++) body(c)
RECURSIVE ForCursorsUp(_, _, _)
ForCursorsUp(body(_, _), e, c) ==
    IF ~Ok(e) \/ c > e.mState.mCurrentCursor THEN e
    ELSE ForCursorsUp(body, body(e, c), c + 1)

\* for (int c = mState.mCurrentCursor; c > -1; c--) body(c), entered at c
RECURSIVE ForCursorsDown(_, _, _)
ForCursorsDown(body(_, _), e, c) ==
    IF ~Ok(e) \/ c < 0 THEN e
    ELSE ForCursorsDown(body, body(e, c), c - 1)

\* Move(aLine, aCharIndex, aLeft = true) for aCharIndex # 0: the new index.
RECURSIVE SkipSequenceLeft(_, _)
SkipSequenceLeft(line, i) ==
    IF i > 0 /\ IsUTFSequence(line[i + 1]) THEN SkipSequenceLeft(line, i - 1) ELSE i

MoveLeftIndex(e, aLine, aCharIndex) ==
    IF PastLastLine(e.mLines, aLine) THEN aCharIndex
    ELSE SkipSequenceLeft(LineAt(e, aLine), aCharIndex - 1)

\* Move(aLine, aCharIndex) to the right for aCharIndex < size: the new index.
MoveRightIndex(e, aLine, aCharIndex) ==
    Min(aCharIndex + UTF8CharLength(LineAt(e, aLine)[aCharIndex + 1]),
        Len(LineAt(e, aLine)))

\* MoveCoords reads mLines[lineIndex] unchecked when it moves right.
MoveCoordsReadsPastEnd(e, aCoords, aDirection) ==
    aDirection = "Right" /\ PastLastLine(e.mLines, aCoords.mLine)

\* MoveCoords(aCoords, aDirection, aWordMode = false, aLineCount)
MoveCoords(e, aCoords, aDirection, aLineCount) ==
    LET charIndex == IndexR(e, aCoords)
        lineIndex == aCoords.mLine
    IN CASE aDirection = "Right" ->
              IF charIndex >= Len(LineAt(e, lineIndex))
              THEN IF lineIndex < LineCount(e) - 1
                   THEN Coordinates(Max(0, Min(LineCount(e) - 1, lineIndex + 1)), 0)
                   ELSE aCoords
              ELSE Coordinates(lineIndex,
                       Column(e, lineIndex, MoveRightIndex(e, lineIndex, charIndex)))
         [] aDirection = "Left" ->
              IF charIndex = 0
              THEN IF lineIndex > 0
                   THEN Coordinates(lineIndex - 1, MaxColumn(e, lineIndex - 1))
                   ELSE aCoords
              ELSE Coordinates(lineIndex,
                       Column(e, lineIndex, MoveLeftIndex(e, lineIndex, charIndex)))
         [] aDirection = "Up" ->
              Coordinates(Max(0, lineIndex - aLineCount), aCoords.mColumn)
         [] aDirection = "Down" ->
              Coordinates(Max(0, Min(LineCount(e) - 1, lineIndex + aLineCount)),
                          aCoords.mColumn)

MoveCursor(e, c, aDirection, aAmount, aSelect) ==
    LET from == CursorAt(e, c).mInteractiveEnd
    IN IF MoveCoordsReadsPastEnd(e, from, aDirection) THEN Oob(e)
       ELSE SetCursorPosition(e, MoveCoords(e, from, aDirection, aAmount), c, ~aSelect)

\* MoveUp(aAmount, aSelect)
MoveUp(e, aAmount, aSelect) ==
    LET body(x, c) == MoveCursor(x, c, "Up", aAmount, aSelect)
    IN ForCursorsUp(body, e, 0)

\* MoveDown(aAmount, aSelect)
MoveDown(e, aAmount, aSelect) ==
    LET body(x, c) ==
            MoveCursor(AssertThat(x, CursorAt(x, c).mInteractiveEnd.mColumn >= 0),
                       c, "Down", aAmount, aSelect)
    IN ForCursorsUp(body, e, 0)

\* MoveLeft(aSelect, aWordMode = false)
MoveLeft(e, aSelect) ==
    LET collapse(x, c) == SetCursorPosition(x, GetSelectionStart(CursorAt(x, c)), c, TRUE)
        step(x, c) == MoveCursor(x, c, "Left", 1, aSelect)
    IN IF ~Ok(e) \/ LineCount(e) = 0 THEN e
       ELSE IF AnyCursorHasSelection(e) /\ ~aSelect
       THEN ForCursorsUp(collapse, e, 0)
       ELSE ForCursorsUp(step, e, 0)

\* MoveRight(aSelect, aWordMode = false)
MoveRight(e, aSelect) ==
    LET collapse(x, c) == SetCursorPosition(x, GetSelectionEnd(CursorAt(x, c)), c, TRUE)
        step(x, c) == MoveCursor(x, c, "Right", 1, aSelect)
    IN IF ~Ok(e) \/ LineCount(e) = 0 THEN e
       ELSE IF AnyCursorHasSelection(e) /\ ~aSelect
       THEN ForCursorsUp(collapse, e, 0)
       ELSE ForCursorsUp(step, e, 0)

\* MoveTop(aSelect)
MoveTop(e, aSelect) ==
    SetCursorPosition(e, Coordinates(0, 0), e.mState.mCurrentCursor, ~aSelect)

\* MoveBottom(aSelect)
MoveBottom(e, aSelect) ==
    LET maxLine == LineCount(e) - 1
    IN SetCursorPosition(e, Coordinates(maxLine, MaxColumn(e, maxLine)),
                         e.mState.mCurrentCursor, ~aSelect)

\* MoveHome(aSelect)
MoveHome(e, aSelect) ==
    LET body(x, c) ==
            SetCursorPosition(x, Coordinates(CursorAt(x, c).mInteractiveEnd.mLine, 0),
                              c, ~aSelect)
    IN ForCursorsUp(body, e, 0)

\* MoveEnd(aSelect)
MoveEnd(e, aSelect) ==
    LET body(x, c) ==
            LET lindex == CursorAt(x, c).mInteractiveEnd.mLine
            IN SetCursorPosition(x, Coordinates(lindex, MaxColumn(x, lindex)),
                                 c, ~aSelect)
    IN ForCursorsUp(body, e, 0)

(***************************************************************************)
(* Edit commands                                                           *)
(***************************************************************************)
PushOp(e, text, start, end, type) ==
    IF ~Ok(e) THEN e ELSE [e EXCEPT !.u = Append(@, UndoOperation(text, start, end, type))]

\* u.mOperations.push_back({ GetSelectedText(c), GetSelectionStart(),
\* GetSelectionEnd(), Delete }); DeleteSelection(c);
RecordAndDeleteSelection(e, c) ==
    IF ~Ok(e) THEN e
    ELSE LET cu == CursorAt(e, c)
             e1 == GetSelectedTextChecked(e, c)
         IN DeleteSelection(
                PushOp(e1, GetSelectedText(e, c), GetSelectionStart(cu),
                       GetSelectionEnd(cu), "Delete"),
                c)

RecordAndDeleteIfSelection(e, c) ==
    IF ~Ok(e) \/ ~HasSelection(CursorAt(e, c)) THEN e
    ELSE RecordAndDeleteSelection(e, c)

\* u.mAfter = mState; AddUndo(u);
FinishUndo(e, before) ==
    IF ~Ok(e) THEN e ELSE AddUndo(e, UndoRecord(e.u, before, e.mState))

\* ImTextCharToUtf8
ImTextCharToUtf8(c) ==
    IF c < 128 THEN << c >>
    ELSE IF c < 2048 THEN << 192 + (c \div 64), 128 + (c % 64) >>
    ELSE IF c >= 56320 /\ c < 57344 THEN << >>
    ELSE IF c >= 55296 /\ c < 56320
    THEN << 240 + (c \div 262144), 128 + ((c \div 4096) % 64),
            128 + ((c \div 64) % 64), 128 + (c % 64) >>
    ELSE << 224 + (c \div 4096), 128 + ((c \div 64) % 64), 128 + (c % 64) >>

\* isascii(c) && isblank(c)
IsBlank(c) == c = SPACE \/ c = TAB

RECURSIVE LeadingBlanks(_, _)
LeadingBlanks(line, i) ==
    IF i < Len(line) /\ IsBlank(line[i + 1])
    THEN << line[i + 1] >> \o LeadingBlanks(line, i + 1)
    ELSE << >>

\* bool mAutoIndent
mAutoIndent == TRUE

\* coords.push_back(coord): the coordinates are kept with the editor, in
\* the field coords that EnterCharacterText adds and removes.
PushCoord(e, coord) == [e EXCEPT !.coords = Append(@, coord)]

\* for (const auto& coord : coords) Colorize(coord.mLine - 1, 3);
RECURSIVE ColorizeCoords(_, _, _)
ColorizeCoords(e, coords, i) ==
    IF i > Len(coords) THEN e
    ELSE ColorizeCoords(Colorize(e, coords[i].mLine - 1, 3), coords, i + 1)

\* The body of EnterCharacter's second loop for one cursor.
EnterCharacterDone(e, c, coord, added) ==
    PushOp(e, added, coord, GetSanitizedCursorCoordinates(e, c), "Add")

\* the new line is in place: the cursor moves behind its indentation
EnterNewLineMoved(e4, c, coord, l, blanks) ==
    EnterCharacterDone(
        SetCursorPosition(e4, Coordinates(l + 1, Column(e4, l + 1, Len(blanks))),
                          c, TRUE),
        c, coord, << NL >> \o blanks)

\* the rest of the line moves behind the indentation of the new line
EnterNewLineSplit(e2, c, coord, l, line, blanks, cindex) ==
    EnterNewLineMoved(
        RemoveGlyphsFromLine(
            AddGlyphsToLine(e2, l + 1, Len(blanks),
                            SubLine(line, cindex, Len(line))),
            l, cindex, -1),
        c, coord, l, blanks)

EnterNewLineIndented(e1, c, coord, l, line, blanks) ==
    EnterNewLineSplit([e1 EXCEPT !.mLines[l + 2] = blanks], c, coord, l, line,
                      blanks,
                      IndexR([e1 EXCEPT !.mLines[l + 2] = blanks], coord))

EnterNewLineIn(e1, c, coord, l, line) ==
    EnterNewLineIndented(e1, c, coord, l, line,
                         IF mAutoIndent THEN LeadingBlanks(line, 0) ELSE << >>)

\* aChar == '\n'
EnterNewLine(e1, c, coord, l) ==
    EnterNewLineIn(e1, c, coord, l, LineAt(e1, l))

EnterGlyphAdded(e1, c, coord, l, cindex, buf) ==
    EnterCharacterDone(
        SetCursorPosition(e1, Coordinates(l, Column(e1, l, cindex + Len(buf))),
                          c, TRUE),
        c, coord, buf)

EnterGlyphAt(e0, c, coord, l, cindex, buf) ==
    EnterGlyphAdded(AddBytes(e0, l, cindex, buf), c, coord, l, cindex, buf)

\* any other character: ImTextCharToUtf8(buf, 7, aChar)
EnterGlyph(e0, c, coord, l, buf) ==
    IF buf = << >> THEN e0
    ELSE EnterGlyphAt(e0, c, coord, l, IndexR(e0, coord), buf)

EnterCharacterInLine(e0, c, aChar, coord, l) ==
    IF PastLastLine(e0.mLines, l) THEN Oob(e0)
    ELSE IF aChar = NL THEN EnterNewLine(InsertLine(e0, l + 1), c, coord, l)
    ELSE EnterGlyph(e0, c, coord, l, ImTextCharToUtf8(aChar))

EnterCharacterAtCoord(ed, c, aChar, coord) ==
    EnterCharacterInLine(AssertThat(PushCoord(ed, coord), LineCount(ed) > 0),
                         c, aChar, coord, coord.mLine)

EnterCharacterAt(ed, c, aChar) ==
    IF ~Ok(ed) THEN ed
    ELSE EnterCharacterAtCoord(ed, c, aChar,
                               GetSanitizedCursorCoordinates(ed, c))

\* The tail of EnterCharacter: the undo record is added and every
\* coordinate of `coords' is colorized.
EnterCharacterEnd(e2, before) ==
    [ColorizeCoords(FinishUndo(e2, before), e2.coords, 1) EXCEPT
        !.coords = << >>]

\* EnterCharacter(aChar, aShift) when it is not an indent operation.
EnterCharacterText(e, aChar) ==
    LET before == e.mState
        cur == e.mState.mCurrentCursor
        e1 == IF AnyCursorHasSelection(e)
              THEN ForCursorsDown(RecordAndDeleteSelection, e, cur)
              ELSE e
        body(x, c) == EnterCharacterAt(x, c, aChar)
    IN EnterCharacterEnd(
           ForCursorsDown(body, [e1 EXCEPT !.coords = << >>], cur), before)

AnyCursorHasMultilineSelection(e) ==
    \E c \in LiveCursors(e) :
        GetSelectionStart(CursorAt(e, c)).mLine # GetSelectionEnd(CursorAt(e, c)).mLine

\* Delete(aWordMode = false, aEditorState) with a selection present.
DeleteSelections(e, before) ==
    FinishUndo(ForCursorsDown(RecordAndDeleteIfSelection, e, e.mState.mCurrentCursor),
               before)

\* Delete(aWordMode = false)
DeleteWritable(e) ==
    IF ~Ok(e) \/ LineCount(e) = 0 THEN e
    ELSE IF AnyCursorHasSelection(e) THEN DeleteSelections(e, e.mState)
    ELSE LET stateBeforeDeleting == e.mState
             e1 == MoveRight(e, TRUE)
         IN IF ~Ok(e1) THEN e1
            ELSE IF ~AllCursorsHaveSelection(e1)
            THEN IF AnyCursorHasSelection(e1) THEN MoveLeft(e1, FALSE) ELSE e1
            ELSE LET e2 == OnCursorPositionChanged(e1)
                 IN IF AnyCursorHasSelection(e2)
                    THEN DeleteSelections(e2, stateBeforeDeleting)
                    ELSE e2

\* Delete()
Delete(e) ==
    DeleteWritable(NotReadOnly(e))

\* Backspace(aWordMode = false)
BackspaceWritable(e) ==
    IF ~Ok(e) \/ LineCount(e) = 0 THEN e
    ELSE IF AnyCursorHasSelection(e) THEN Delete(e)
    ELSE LET stateBeforeDeleting == e.mState
             e1 == MoveLeft(e, TRUE)
         IN IF ~Ok(e1) THEN e1
            ELSE IF ~AllCursorsHaveSelection(e1)
            THEN IF AnyCursorHasSelection(e1) THEN MoveRight(e1, FALSE) ELSE e1
            ELSE LET e2 == OnCursorPositionChanged(e1)
                 IN IF AnyCursorHasSelection(e2)
                    THEN DeleteSelections(e2, stateBeforeDeleting)
                    ELSE e2

\* Backspace()
Backspace(e) ==
    BackspaceWritable(NotReadOnly(e))

\* Copy() with a selection present: the reads of GetClipboardText.
CopyReads(e) == ForCursorsUp(GetSelectedTextChecked, e, 0)

\* Cut()
Cut(e) ==
    IF ~Ok(e) THEN e
    ELSE IF e.mReadOnly THEN CopyReads(e)
    ELSE IF ~AnyCursorHasSelection(e) THEN e
    ELSE LET before == e.mState
             e1 == CopyReads(e)
         IN FinishUndo(ForCursorsDown(RecordAndDeleteSelection, e1,
                                      e1.mState.mCurrentCursor),
                       before)

\* InsertTextAtCursor(aValue, aCursor)
InsertTextAtCursor(e, aValue, aCursor) ==
    IF ~Ok(e) THEN e
    ELSE LET pos == GetSanitizedCursorCoordinates(e, aCursor)
             selectionStart == GetSelectionStart(CursorAt(e, aCursor))
             start == IF CoordLT(selectionStart, pos) THEN selectionStart ELSE pos
             r == InsertTextAt(e, pos, aValue)
             totalLines == pos.mLine - start.mLine + r[3]
         IN Colorize(SetCursorPosition(r[1], r[2], aCursor, TRUE),
                     start.mLine - 1, totalLines + 2)

\* The clipboard split at its line feeds: Paste's clipTextLines.
RECURSIVE SplitLines(_, _)
SplitLines(text, acc) ==
    IF text = << >> THEN << acc >>
    ELSE IF Head(text) = NL THEN << acc >> \o SplitLines(Tail(text), << >>)
    ELSE SplitLines(Tail(text), Append(acc, Head(text)))

\* Paste(), clipText being what ImGui::GetClipboardText() returns
Paste(e, clipText) ==
    IF ~Ok(e) \/ e.mReadOnly \/ clipText = << >> THEN e
    ELSE LET before == e.mState
             cur == e.mState.mCurrentCursor
             clipTextLines == SplitLines(clipText, << >>)
             canPasteToMultipleCursors == cur > 0 /\ Len(clipTextLines) = cur + 1
             e1 == IF AnyCursorHasSelection(e)
                   THEN ForCursorsDown(RecordAndDeleteSelection, e, cur)
                   ELSE e
             body(x, c) ==
                 LET start == GetSanitizedCursorCoordinates(x, c)
                     text == IF canPasteToMultipleCursors
                             THEN clipTextLines[c + 1] ELSE clipText
                     x1 == InsertTextAtCursor(x, text, c)
                 IN PushOp(x1, text, start, GetSanitizedCursorCoordinates(x1, c), "Add")
         IN FinishUndo(ForCursorsDown(body, e1, e1.mState.mCurrentCursor), before)

\* "when selection ends at line start": the line is skipped.
SelectionEndsAtLineStart(cu, currentLine) ==
    Coordinates(currentLine, 0) = GetSelectionEnd(cu)
        /\ GetSelectionEnd(cu) # GetSelectionStart(cu)

\* `while (charIndex > -1 && (line[charIndex] is ' ' or '\t')) charIndex--'
RECURSIVE SkipBlanksLeft(_, _)
SkipBlanksLeft(line, charIndex) ==
    IF charIndex > -1 /\ IsBlank(line[charIndex + 1])
    THEN SkipBlanksLeft(line, charIndex - 1) ELSE charIndex

\* The body of ChangeCurrentLinesIndentation for one line.
IndentLine(e, currentLine, aIncrease) ==
    IF aIncrease
    THEN IF PastLastLine(e.mLines, currentLine) THEN Oob(e)
         ELSE IF Len(LineAt(e, currentLine)) > 0
         THEN LET lineStart == Coordinates(currentLine, 0)
                  r == InsertTextAt(e, lineStart, << TAB >>)
              IN Colorize(PushOp(r[1], << TAB >>, lineStart, r[2], "Add"),
                          lineStart.mLine, 1)
         ELSE e
    ELSE LET start == Coordinates(currentLine, 0)
             end == Coordinates(currentLine, e.mTabSize)
             first == IndexL(e, end) - 1
             charIndex == IF first > -1
                          THEN SkipBlanksLeft(LineAt(e, currentLine), first)
                          ELSE first
         IN IF charIndex = -1
            THEN Colorize(
                     DeleteRange(
                         PushOp(GetTextChecked(e, start, end), GetText(e, start, end),
                                start, end, "Delete"),
                         start, end),
                     currentLine, 1)
            ELSE e

\* The inner loop of ChangeCurrentLinesIndentation: the lines of cursor c,
\* from the line of its selection end up to the line of its selection start.
RECURSIVE IndentLinesOfCursor(_, _, _, _)
IndentLinesOfCursor(e, c, currentLine, aIncrease) ==
    IF ~Ok(e) \/ currentLine < GetSelectionStart(CursorAt(e, c)).mLine THEN e
    ELSE IndentLinesOfCursor(
             IF SelectionEndsAtLineStart(CursorAt(e, c), currentLine) THEN e
             ELSE IndentLine(e, currentLine, aIncrease),
             c, currentLine - 1, aIncrease)

\* ChangeCurrentLinesIndentation(aIncrease).  The record it adds carries the
\* mAfter of a default-constructed UndoRecord.
ChangeCurrentLinesIndentationWritable(e, aIncrease) ==
    IF ~Ok(e) THEN e
    ELSE LET before == e.mState
             body(x, c) ==
                 IndentLinesOfCursor(x, c, GetSelectionEnd(CursorAt(x, c)).mLine,
                                     aIncrease)
             e1 == ForCursorsDown(body, e, e.mState.mCurrentCursor)
         IN IF ~Ok(e1) \/ e1.u = << >> THEN e1
            ELSE AddUndo(e1, UndoRecord(e1.u, before, OneCursor))

\* ChangeCurrentLinesIndentation(aIncrease)
ChangeCurrentLinesIndentation(e, aIncrease) ==
    ChangeCurrentLinesIndentationWritable(NotReadOnly(e), aIncrease)

\* EnterCharacter(aChar, aShift)
EnterCharacterWritable(e, aChar, aShift) ==
    IF ~Ok(e) THEN e
    ELSE IF AnyCursorHasSelection(e) /\ AnyCursorHasMultilineSelection(e)
            /\ aChar = TAB
    THEN ChangeCurrentLinesIndentation(e, ~aShift)
    ELSE EnterCharacterText(e, aChar)

\* EnterCharacter(aChar, aShift)
EnterCharacter(e, aChar, aShift) ==
    EnterCharacterWritable(NotReadOnly(e), aChar, aShift)

\* The lines the cursors cover, as MoveUpCurrentLines and
\* MoveDownCurrentLines collect them in affectedLines.
AffectedLines(e) ==
    UNION { { l \in GetSelectionStart(CursorAt(e, c)).mLine
                     .. GetSelectionEnd(CursorAt(e, c)).mLine :
                ~SelectionEndsAtLineStart(CursorAt(e, c), l) } :
            c \in LiveCursors(e) }

SetMin(S) == CHOOSE x \in S : \A y \in S : x <= y
SetMax(S) == CHOOSE x \in S : \A y \in S : x >= y

Swap(lines, i, j) == [lines EXCEPT ![i + 1] = lines[j + 1], ![j + 1] = lines[i + 1]]

\* for (int line : affectedLines) std::swap(mLines[line - 1], mLines[line]);
RECURSIVE SwapUp(_, _)
SwapUp(lines, todo) ==
    IF todo = {} THEN lines
    ELSE LET l == SetMin(todo) IN SwapUp(Swap(lines, l - 1, l), todo \ {l})

\* the same from the last affected line, with the line below
RECURSIVE SwapDown(_, _)
SwapDown(lines, todo) ==
    IF todo = {} THEN lines
    ELSE LET l == SetMax(todo) IN SwapDown(Swap(lines, l + 1, l), todo \ {l})

ShiftAllCursors(e, delta) ==
    [e EXCEPT !.mState.mCursors =
        [c \in DOMAIN @ |->
            IF c - 1 <= e.mState.mCurrentCursor
            THEN Cursor(Coordinates(@[c].mInteractiveStart.mLine + delta,
                                    @[c].mInteractiveStart.mColumn),
                        Coordinates(@[c].mInteractiveEnd.mLine + delta,
                                    @[c].mInteractiveEnd.mColumn))
            ELSE @[c]]]

\* MoveUpCurrentLines()
MoveUpCurrentLinesWritable(e) ==
    IF ~Ok(e) THEN e
    ELSE LET affectedLines == AffectedLines(e)
             minLine == IF affectedLines = {} THEN -1 ELSE SetMin(affectedLines)
             maxLine == IF affectedLines = {} THEN -1 ELSE SetMax(affectedLines)
             start == Coordinates(minLine - 1, 0)
             end == Coordinates(maxLine, MaxColumn(e, maxLine))
             e1 == PushOp(GetTextChecked(e, start, end), GetText(e, start, end),
                          start, end, "Delete")
         IN IF minLine = 0 THEN e
            ELSE IF ~Ok(e1) THEN e1
            ELSE IF \E l \in affectedLines : l < 1 \/ l >= LineCount(e) THEN Oob(e1)
            ELSE LET e2 == ShiftAllCursors(
                               [e1 EXCEPT !.mLines = SwapUp(@, affectedLines)], -1)
                     end2 == Coordinates(maxLine, MaxColumn(e2, maxLine))
                     e3 == PushOp(GetTextChecked(e2, start, end2),
                                  GetText(e2, start, end2), start, end2, "Add")
                 IN FinishUndo(e3, e.mState)

\* MoveUpCurrentLines()
MoveUpCurrentLines(e) ==
    MoveUpCurrentLinesWritable(NotReadOnly(e))

\* MoveDownCurrentLines()
MoveDownCurrentLinesWritable(e) ==
    IF ~Ok(e) THEN e
    ELSE LET affectedLines == AffectedLines(e)
             minLine == IF affectedLines = {} THEN -1 ELSE SetMin(affectedLines)
             maxLine == IF affectedLines = {} THEN -1 ELSE SetMax(affectedLines)
             start == Coordinates(minLine, 0)
             end == Coordinates(maxLine + 1, MaxColumn(e, maxLine + 1))
             e1 == PushOp(GetTextChecked(e, start, end), GetText(e, start, end),
                          start, end, "Delete")
         IN IF maxLine = LineCount(e) - 1 THEN e
            ELSE IF ~Ok(e1) THEN e1
            ELSE IF \E l \in affectedLines : l < 0 \/ l + 1 >= LineCount(e) THEN Oob(e1)
            ELSE LET e2 == ShiftAllCursors(
                               [e1 EXCEPT !.mLines = SwapDown(@, affectedLines)], 1)
                     end2 == Coordinates(maxLine + 1, MaxColumn(e2, maxLine + 1))
                     e3 == PushOp(GetTextChecked(e2, start, end2),
                                  GetText(e2, start, end2), start, end2, "Add")
                 IN FinishUndo(e3, e.mState)

\* MoveDownCurrentLines()
MoveDownCurrentLines(e) ==
    MoveDownCurrentLinesWritable(NotReadOnly(e))

\* The body of RemoveCurrentLines' last loop for one cursor.
RemoveLineOfCursor(e, c) ==
    IF ~Ok(e) THEN e
    ELSE LET currentLine == CursorAt(e, c).mInteractiveEnd.mLine
             nextLine == currentLine + 1
             prevLine == currentLine - 1
             branch == IF LineCount(e) > nextLine THEN "next"
                       ELSE IF prevLine > -1 THEN "prev" ELSE "only"
             toDeleteStart ==
                 CASE branch = "next" -> Coordinates(currentLine, 0)
                   [] branch = "prev" -> Coordinates(prevLine, MaxColumn(e, prevLine))
                   [] branch = "only" -> Coordinates(currentLine, 0)
             toDeleteEnd ==
                 CASE branch = "next" -> Coordinates(nextLine, 0)
                   [] branch = "prev" -> Coordinates(currentLine, MaxColumn(e, currentLine))
                   [] branch = "only" -> Coordinates(currentLine, MaxColumn(e, currentLine))
             e1 == SetCursorPosition(e,
                       Coordinates(IF branch = "prev" THEN prevLine ELSE currentLine, 0),
                       c, TRUE)
             e2 == PushOp(GetTextChecked(e1, toDeleteStart, toDeleteEnd),
                          GetText(e1, toDeleteStart, toDeleteEnd),
                          toDeleteStart, toDeleteEnd, "Delete")
         IN IF toDeleteStart.mLine # toDeleteEnd.mLine
            THEN RemoveLine(e2, currentLine, {c})
            ELSE DeleteRange(e2, toDeleteStart, toDeleteEnd)

\* RemoveCurrentLines()
RemoveCurrentLines(e) ==
    IF ~Ok(e) THEN e
    ELSE LET before == e.mState
             e1 == IF AnyCursorHasSelection(e)
                   THEN ForCursorsDown(RecordAndDeleteIfSelection, e,
                                       e.mState.mCurrentCursor)
                   ELSE e
             e2 == OnCursorPositionChanged(MoveHome(e1, FALSE))
             e3 == ForCursorsDown(RemoveLineOfCursor, e2, e2.mState.mCurrentCursor)
         IN FinishUndo(e3, before)

\* The loop of SetText over the bytes of aText.
RECURSIVE TextToLines(_, _)
TextToLines(aText, lines) ==
    IF aText = << >> THEN lines
    ELSE LET chr == Head(aText)
         IN TextToLines(Tail(aText),
                IF chr = CR THEN lines
                ELSE IF chr = NL THEN Append(lines, << >>)
                ELSE [lines EXCEPT ![Len(lines)] = Append(@, chr)])

\* SetText(aText)
SetText(e, aText) ==
    IF ~Ok(e) THEN e
    ELSE ColorizeAll(
             [ClearFindHighlights(MarkFindResultsDirty(e, FALSE)) EXCEPT
                  !.mLines = TextToLines(aText, << << >> >>),
                  !.mUndoBuffer = << >>,
                  !.mUndoIndex = 0,
                  !.mFind.mFindResultIndex = -1])

\* SetTextLines(aLines)
SetTextLines(e, aLines) ==
    IF ~Ok(e) THEN e
    ELSE ColorizeAll(
             [ClearFindHighlights(MarkFindResultsDirty(e, FALSE)) EXCEPT
                  !.mLines = IF aLines = << >> THEN << << >> >> ELSE aLines,
                  !.mUndoBuffer = << >>,
                  !.mUndoIndex = 0,
                  !.mFind.mFindResultIndex = -1])

\* SelectAll()
SelectAll(e) ==
    MoveBottom(MoveTop(ClearExtraCursors(ClearSelections(e)), FALSE), TRUE)

(***************************************************************************)
(* The find engine: the flattened text, the literal search, the results    *)
(* and the highlight cache.  The regular-expression branch of              *)
(* RefreshFindResults is not modelled: mFindUseRegex stays false.          *)
(***************************************************************************)
RECURSIVE Flatten(_)
Flatten(ss) == IF ss = << >> THEN << >> ELSE Head(ss) \o Flatten(Tail(ss))

\* The bytes of the document, its lines joined by '\n'.
RECURSIVE DocText(_)
DocText(lines) ==
    IF Len(lines) <= 1 THEN Flatten(lines)
    ELSE Head(lines) \o << NL >> \o DocText(Tail(lines))

\* std::tolower in the "C" locale
ToLower(c) == IF c >= 65 /\ c <= 90 THEN c + 32 ELSE c

LowerCase(text) == [i \in 1 .. Len(text) |-> ToLower(text[i])]

\* static inline bool CharIsWordChar(char ch)
CharIsWordChar(ch) ==
    \/ UTF8CharLength(ch) > 1
    \/ ch >= 97 /\ ch <= 122
    \/ ch >= 65 /\ ch <= 90
    \/ ch >= 48 /\ ch <= 57
    \/ ch = 95

\* HasValidFindPattern()
HasValidFindPattern(e) == e.mFind.mFindBuffer # << >>

\* lineOffsets[line] of RefreshFindResults
RECURSIVE LineOffset(_, _)
LineOffset(lines, line) ==
    IF line = 0 THEN 0 ELSE Len(lines[line]) + 1 + LineOffset(lines, line - 1)

\* The lambda coordinateToOffset of RefreshFindResults
CoordinateToOffsetIn(e, line, charIndex) ==
    LineOffset(e.mLines, line) + Min(Max(charIndex, 0), Len(LineAt(e, line)))

CoordinateToOffsetAt(e, line, column) ==
    CoordinateToOffsetIn(e, line, IndexR(e, Coordinates(line, column)))

CoordinateToOffsetOf(e, sanitized) ==
    CoordinateToOffsetAt(e, Min(Max(sanitized.mLine, 0), LineCount(e) - 1),
                         sanitized.mColumn)

CoordinateToOffset(e0, coords0) ==
    Value({ (
        CoordinateToOffsetOf(e, Sanitize(e, coords))
        ) : e \in { e0 }, coords \in { coords0 } })

\* std::upper_bound(lineOffsets, offset) - 1, searched upwards from line
RECURSIVE LineOfOffset(_, _, _)
LineOfOffset(lines, offset, line) ==
    IF line + 1 < Len(lines) /\ LineOffset(lines, line + 1) <= offset
    THEN LineOfOffset(lines, offset, line + 1)
    ELSE line

CoordinatesInLine(e, offset, line) ==
    Coordinates(line,
        Column(e, line, Min(offset - LineOffset(e.mLines, line),
                            Len(LineAt(e, line)))))

\* The lambda offsetToCoordinates of RefreshFindResults
OffsetToCoordinates(e, offset) ==
    CoordinatesInLine(e, Min(offset, Len(DocText(e.mLines))),
        LineOfOffset(e.mLines, Min(offset, Len(DocText(e.mLines))), 0))

\* The loop of TryGetSelectionBounds over the cursors.
RECURSIVE SelectionBoundsLoop(_, _, _)
SelectionBoundsLoop(e, c, out) ==
    IF c > e.mState.mCurrentCursor THEN out
    ELSE IF ~HasSelection(CursorAt(e, c)) THEN SelectionBoundsLoop(e, c + 1, out)
    ELSE LET selectionStart == Sanitize(e, GetSelectionStart(CursorAt(e, c)))
             selectionEnd == Sanitize(e, GetSelectionEnd(CursorAt(e, c)))
         IN SelectionBoundsLoop(e, c + 1,
                [hasBounds |-> TRUE,
                 outStart |-> IF ~out.hasBounds \/ CoordLT(selectionStart, out.outStart)
                              THEN selectionStart ELSE out.outStart,
                 outEnd |-> IF ~out.hasBounds \/ CoordLT(out.outEnd, selectionEnd)
                            THEN selectionEnd ELSE out.outEnd])

SelectionBounds(e, out, start, end) ==
    IF ~out.hasBounds /\ e.mFind.mFindSelectionRangeValid /\ CoordLT(start, end)
    THEN [ok |-> TRUE, outStart |-> start, outEnd |-> end]
    ELSE [ok |-> out.hasBounds /\ CoordLT(out.outStart, out.outEnd),
          outStart |-> out.outStart, outEnd |-> out.outEnd]

\* TryGetSelectionBounds(outStart, outEnd)
TryGetSelectionBounds(e) ==
    SelectionBounds(e,
        SelectionBoundsLoop(e, 0, [hasBounds |-> FALSE,
                                   outStart |-> Coordinates(0, 0),
                                   outEnd |-> Coordinates(0, 0)]),
        Sanitize(e, e.mFind.mFindSelectionRangeStart),
        Sanitize(e, e.mFind.mFindSelectionRangeEnd))

\* RefreshFindResults: selectionRangeValid, selectionStartCoords and
\* selectionEndCoords, given what TryGetSelectionBounds has returned.
FindRangeOf(e, bounds) ==
    IF e.mFind.mFindSelectionOnly /\ bounds.ok
    THEN [valid |-> TRUE, start |-> Sanitize(e, bounds.outStart),
          end |-> Sanitize(e, bounds.outEnd)]
    ELSE IF e.mFind.mFindSelectionOnly /\ e.mFind.mFindSelectionRangeValid
    THEN [valid |-> TRUE,
          start |-> Sanitize(e, e.mFind.mFindSelectionRangeStart),
          end |-> Sanitize(e, e.mFind.mFindSelectionRangeEnd)]
    ELSE [valid |-> FALSE,
          start |-> Sanitize(e, Coordinates(0, 0)),
          end |-> Sanitize(e, Coordinates(LineCount(e) - 1,
                                          MaxColumn(e, LineCount(e) - 1)))]

FindRange(e) == FindRangeOf(e, TryGetSelectionBounds(e))

\* `mFindSelectionRangeStart = selectionStartCoords; ...' and
\* `mFindSelectionRangeValid = selectionRangeValid'
StoreFindRange(e, range) ==
    [e EXCEPT !.mFind.mFindSelectionRangeValid = range.valid,
              !.mFind.mFindSelectionRangeStart =
                  IF range.valid THEN range.start ELSE @,
              !.mFind.mFindSelectionRangeEnd =
                  IF range.valid THEN range.end ELSE @]

\* std::string::find(pattern, pos): the first offset from pos on at which
\* pattern occurs in haystack, or -1 for npos.
StringFind(haystack, pattern, pos) ==
    LET at == { o \in pos .. Len(haystack) - Len(pattern) :
                    SubSeq(haystack, o + 1, o + Len(pattern)) = pattern }
    IN IF at = {} THEN -1 ELSE SetMin(at)

\* The whole-word test of the literal branch.
WordBoundaries(joined, matchStart, matchEnd, rangeStartOffset, rangeEndOffset) ==
    /\ \/ matchStart = rangeStartOffset
       \/ matchStart = 0
       \/ ~CharIsWordChar(joined[matchStart])
    /\ \/ matchEnd >= rangeEndOffset
       \/ matchEnd >= Len(joined)
       \/ ~CharIsWordChar(joined[matchEnd + 1])

\* The loop `while (searchPos < rangeEndOffset)' of the literal branch; the
\* matches are collected as pairs << matchStart, matchEnd >> of offsets.
RECURSIVE LiteralSearch(_, _, _, _, _, _, _, _)
\* The loop with `searchPos = matchStart + 1' behind an accepted match.
LiteralFoundOverlapping(joined, haystack, pattern, wholeWord, rangeStartOffset, rangeEndOffset, found, acc) ==
    IF found = -1 \/ found >= rangeEndOffset
       \/ found + Len(pattern) > rangeEndOffset
    THEN acc
    ELSE LiteralSearch(joined, haystack, pattern, wholeWord, rangeStartOffset,
                       rangeEndOffset, found + 1,
                       IF wholeWord /\ ~WordBoundaries(joined, found,
                              found + Len(pattern), rangeStartOffset,
                              rangeEndOffset)
                       THEN acc
                       ELSE Append(acc, << found, found + Len(pattern) >>))

LiteralFound(joined, haystack, pattern, wholeWord, rangeStartOffset, rangeEndOffset, found, acc) ==
    IF found = -1 \/ found >= rangeEndOffset
       \/ found + Len(pattern) > rangeEndOffset
    THEN acc
    ELSE IF wholeWord /\ ~WordBoundaries(joined, found, found + Len(pattern),
                                         rangeStartOffset, rangeEndOffset)
    THEN LiteralSearch(joined, haystack, pattern, wholeWord, rangeStartOffset,
                       rangeEndOffset, found + 1, acc)
    ELSE LiteralSearch(joined, haystack, pattern, wholeWord, rangeStartOffset,
                       rangeEndOffset, found + Len(pattern),
                       Append(acc, << found, found + Len(pattern) >>))

LiteralSearch(joined, haystack, pattern, wholeWord, rangeStartOffset, rangeEndOffset, searchPos, acc) ==
    IF searchPos >= rangeEndOffset THEN acc
    ELSE LiteralFound(joined, haystack, pattern, wholeWord, rangeStartOffset,
                      rangeEndOffset, StringFind(haystack, pattern, searchPos),
                      acc)

\* The literal branch, between the offsets of the range already put in order.
LiteralMatches(joined, pattern, caseSensitive, wholeWord, from, to) ==
    LiteralSearch(joined,
                  IF caseSensitive THEN joined ELSE LowerCase(joined),
                  IF caseSensitive THEN pattern ELSE LowerCase(pattern),
                  wholeWord, from, to, from, << >>)

(***************************************************************************)
(* std::regex for the patterns made of letters and parentheses: a pattern  *)
(* whose parentheses do not pair raises std::regex_error when it is        *)
(* compiled; any other matches what its letters match, the groups adding   *)
(* nothing, and sregex_iterator gives the leftmost matches in turn.        *)
(***************************************************************************)
LPAREN == 40
RPAREN == 41

\* The parentheses still open behind the pattern, or -1 when one closes
\* that was not opened.
RECURSIVE OpenGroups(_, _, _)
OpenGroups(pattern, i, open) ==
    IF i > Len(pattern) THEN open
    ELSE IF pattern[i] = LPAREN THEN OpenGroups(pattern, i + 1, open + 1)
    ELSE IF pattern[i] # RPAREN THEN OpenGroups(pattern, i + 1, open)
    ELSE IF open = 0 THEN -1
    ELSE OpenGroups(pattern, i + 1, open - 1)

\* `std::regex re(pattern, options)' returns
RegexCompiles(pattern) == OpenGroups(pattern, 1, 0) = 0

\* what the pattern matches
RegexLetters(pattern) ==
    SelectSeq(pattern, LAMBDA b : b # LPAREN /\ b # RPAREN)

\* The whole-word test of the regex branch: a match that fails it is passed
\* over.
RegexWholeWords(joined, matches, wholeWord, from, to) ==
    SelectSeq(matches,
              LAMBDA m : ~wholeWord \/ WordBoundaries(joined, m[1], m[2], from, to))

\* The regex branch without `if (matchLength == 0) continue;'
RegexMatchesKeepingEmpty(joined, pattern, caseSensitive, wholeWord, from, to) ==
    IF RegexLetters(pattern) = << >>
    THEN RegexWholeWords(joined, [i \in 1 .. to - from + 1 |-> << from + i - 1, from + i - 1 >>],
                         wholeWord, from, to)
    ELSE RegexWholeWords(joined,
             LiteralMatches(joined, RegexLetters(pattern), caseSensitive, FALSE,
                            from, to),
             wholeWord, from, to)

\* The regex branch: the matches of length 0 are skipped.
RegexMatches(joined, pattern, caseSensitive, wholeWord, from, to) ==
    IF RegexLetters(pattern) = << >> THEN << >>
    ELSE RegexWholeWords(joined,
             LiteralMatches(joined, RegexLetters(pattern), caseSensitive, FALSE,
                            from, to),
             wholeWord, from, to)

\* rangeStartOffset and rangeEndOffset, swapped when they are inverted.
MatchesBetween(e0, rangeStartOffset0, rangeEndOffset0) ==
    Value({ (
        IF e.mFind.mFindUseRegex
        THEN RegexMatches(DocText(e.mLines), e.mFind.mFindBuffer,
                          e.mFind.mFindCaseSensitive, e.mFind.mFindWholeWord,
                          Min(rangeStartOffset, rangeEndOffset),
                          Max(rangeStartOffset, rangeEndOffset))
        ELSE LiteralMatches(DocText(e.mLines), e.mFind.mFindBuffer,
                            e.mFind.mFindCaseSensitive, e.mFind.mFindWholeWord,
                            Min(rangeStartOffset, rangeEndOffset),
                            Max(rangeStartOffset, rangeEndOffset))
        ) : e \in { e0 }, rangeStartOffset \in { rangeStartOffset0 }, rangeEndOffset \in { rangeEndOffset0 } })

MatchesIn(e, range) ==
    MatchesBetween(e, CoordinateToOffset(e, range.start),
                   Min(CoordinateToOffset(e, range.end), Len(DocText(e.mLines))))

\* The segments the lambda addResult files in mFindHighlightsCache.
Highlight(line, startColumn, endColumn, toLineEnd, resultIndex) ==
    [line |-> line, startColumn |-> startColumn, endColumn |-> endColumn,
     toLineEnd |-> toLineEnd, resultIndex |-> resultIndex]

HighlightsOf(e, result, resultIndex) ==
    IF result.mStart.mLine = result.mEnd.mLine
    THEN { Highlight(result.mStart.mLine, result.mStart.mColumn,
                     result.mEnd.mColumn, FALSE, resultIndex) }
    ELSE { Highlight(result.mStart.mLine, result.mStart.mColumn,
                     MaxColumn(e, result.mStart.mLine), TRUE, resultIndex),
           Highlight(result.mEnd.mLine, 0, result.mEnd.mColumn, FALSE,
                     resultIndex) }
         \cup { Highlight(line, 0, MaxColumn(e, line), TRUE, resultIndex) :
                  line \in result.mStart.mLine + 1 .. result.mEnd.mLine - 1 }

ResultsOf(e0, matches0) ==
    Value({ (
        [i \in 1 .. Len(matches) |->
            SearchResult(OffsetToCoordinates(e, matches[i][1]),
                         OffsetToCoordinates(e, matches[i][2]))]
        ) : e \in { e0 }, matches \in { matches0 } })

\* addResult for every match
AddResults(e0, results0) ==
    Value({ (
        [e EXCEPT !.mFind.mFindResults = results,
                  !.mFind.mFindHighlightsCache =
                      UNION { HighlightsOf(e, results[i], i - 1) :
                                i \in 1 .. Len(results) }]
        ) : e \in { e0 }, results \in { results0 } })

\* The choice of mFindResultIndex at the end of RefreshFindResults.
PreservedIndexes(e, aPreserveSelection, cu) ==
    IF aPreserveSelection /\ AnyCursorHasSelection(e)
    THEN { i \in 0 .. Len(e.mFind.mFindResults) - 1 :
             /\ CoordinateToOffset(e, e.mFind.mFindResults[i + 1].mStart)
                  = CoordinateToOffset(e, GetSelectionStart(cu))
             /\ CoordinateToOffset(e, e.mFind.mFindResults[i + 1].mEnd)
                  = CoordinateToOffset(e, GetSelectionEnd(cu)) }
    ELSE {}

IndexesFromCursor(e, cursorOffset) ==
    { i \in 0 .. Len(e.mFind.mFindResults) - 1 :
        \/ /\ CoordinateToOffset(e, e.mFind.mFindResults[i + 1].mStart) <= cursorOffset
           /\ cursorOffset < CoordinateToOffset(e, e.mFind.mFindResults[i + 1].mEnd)
        \/ cursorOffset < CoordinateToOffset(e, e.mFind.mFindResults[i + 1].mStart) }

ChosenIndex(preserved, fromCursor) ==
    IF preserved # {} THEN SetMin(preserved)
    ELSE IF fromCursor # {} THEN SetMin(fromCursor)
    ELSE 0

ChooseResult(e0, aPreserveSelection0) ==
    Value({ (
        IF e.mFind.mFindResults = << >> THEN e
        ELSE [e EXCEPT !.mFind.mFindResultIndex =
                 ChosenIndex(
                     PreservedIndexes(e, aPreserveSelection,
                         CursorAt(e, GetLastAddedCursorIndex(e.mState))),
                     IndexesFromCursor(e,
                         CoordinateToOffset(e,
                             GetSanitizedCursorCoordinates(e, e.mState.mCurrentCursor))))]
        ) : e \in { e0 }, aPreserveSelection \in { aPreserveSelection0 } })

\* The head of RefreshFindResults, up to `mFindResultIndex = -1'
ResetFindResults(e) ==
    [e EXCEPT !.mFind.mFindResultsDirty = FALSE,
              !.mFind.mFindRefreshPending = FALSE,
              !.mFind.mFindRefreshTimer = 0,
              !.mFind.refreshed = TRUE,
              !.mFind.mFindLastUndoIndex = e.mUndoIndex,
              !.mFind.mFindLastUndoBufferSize = Len(e.mUndoBuffer),
              !.mFind.mFindResults = << >>,
              !.mFind.mFindHighlightsCache = {},
              !.mFind.mFindResultIndex = -1,
              !.mFind.computedFrom = e.mLines]

\* a catch block that reports nothing
InvalidRegexSilent(e) == e

\* catch (const std::regex_error&)
InvalidRegex(e) == SetFindStatus(e, "Invalid regex", StatusLong)

SearchRange(e, range, aPreserveSelection) ==
    IF e.mFind.mFindUseRegex /\ ~RegexCompiles(e.mFind.mFindBuffer)
    THEN InvalidRegex(StoreFindRange(e, range))
    ELSE ChooseResult(AddResults(StoreFindRange(e, range),
                                 ResultsOf(e, MatchesIn(e, range))),
                      aPreserveSelection)

\* RefreshFindResults(aPreserveSelection)
RefreshFindResults(e, aPreserveSelection) ==
    IF ~Ok(e) THEN e
    ELSE IF ~HasValidFindPattern(e) \/ e.mLines = << >> THEN ResetFindResults(e)
    ELSE SearchRange(ResetFindResults(e), FindRange(e), aPreserveSelection)

\* EnsureFindResultsUpToDate()
EnsureFindResultsUpToDate(e) ==
    IF ~Ok(e) THEN e
    ELSE IF ~HasValidFindPattern(e)
    THEN [e EXCEPT !.mFind.mFindResults = << >>,
                   !.mFind.mFindHighlightsCache =
                       IF e.mFind.mFindResults # << >> THEN {} ELSE @,
                   !.mFind.mFindResultIndex =
                       IF e.mFind.mFindResults # << >> THEN -1 ELSE @,
                   !.mFind.mFindResultsDirty = FALSE]
    ELSE IF \/ e.mFind.mFindResultsDirty
            \/ e.mFind.mFindLastUndoIndex # e.mUndoIndex
            \/ e.mFind.mFindLastUndoBufferSize # Len(e.mUndoBuffer)
    THEN RefreshFindResults(e, TRUE)
    ELSE e

\* A result is read out of mFindResults to act on it.
UseResult(e) ==
    [e EXCEPT !.mFind.acted = @ \/ e.mFind.computedFrom # e.mLines]

SelectResult(e, result) ==
    SetSelection(ClearExtraCursors(ClearSelections(UseResult(e))),
                 result.mStart, result.mEnd, 0)

FocusUpToDate(e, aIndex) ==
    IF ~Ok(e) \/ e.mFind.mFindResults = << >> THEN e
    ELSE SelectResult(
             [e EXCEPT !.mFind.mFindResultIndex = aIndex % Len(e.mFind.mFindResults)],
             e.mFind.mFindResults[(aIndex % Len(e.mFind.mFindResults)) + 1])

\* FocusFindResult(aIndex, aCenterView)
FocusFindResult(e, aIndex) ==
    FocusUpToDate(EnsureFindResultsUpToDate(e), aIndex)

\* FindNext that wraps around whatever mFindWrapAround says
FindNextWrapping(e, aBackwards, count, idx, next) ==
    IF ~Ok(e) \/ count = 0 THEN e ELSE FocusFindResult(e, next % count)

FindNextUpToDate(e, aBackwards, count, idx, next) ==
    IF ~Ok(e) THEN e
    ELSE IF count = 0 THEN SetFindStatus(e, "No matches", StatusMedium)
    ELSE IF idx < 0
    THEN SetFindStatus(FocusFindResult(e, IF aBackwards THEN count - 1 ELSE 0),
                       "", 0)
    ELSE IF ~e.mFind.mFindWrapAround /\ (next < 0 \/ next >= count)
    THEN SetFindStatus(e, IF aBackwards THEN "Reached start" ELSE "Reached end",
                       StatusShort)
    ELSE SetFindStatus(FocusFindResult(e, next % count), "", 0)

FindNextFrom(e, aBackwards) ==
    FindNextUpToDate(e, aBackwards, Len(e.mFind.mFindResults),
                     e.mFind.mFindResultIndex,
                     IF aBackwards THEN e.mFind.mFindResultIndex - 1
                     ELSE e.mFind.mFindResultIndex + 1)

\* FindNext(aBackwards)
FindNext(e, aBackwards) ==
    FindNextFrom(EnsureFindResultsUpToDate(e), aBackwards)

\* `if (mFindSelectionOnly) mFindSelectionRangeValid = false;'
DropSelectionRange(e, active) ==
    IF active THEN [e EXCEPT !.mFind.mFindSelectionRangeValid = FALSE] ELSE e

\* `ClearSelections(); ClearExtraCursors(); SetSelection(current.mStart,
\* current.mEnd); InsertTextAtCursor(mReplaceBuffer);'
InsertReplacement(e, current) ==
    InsertTextAtCursor(SelectResult(e, current), e.mFind.mReplaceBuffer, 0)

\* ReplaceCurrent from `const auto current' to `RefreshFindResults(false)'
ReplaceResult(e, current) ==
    RefreshFindResults(
        MarkFindResultsDirty(
            DropSelectionRange(InsertReplacement(e, current),
                               e.mFind.mFindSelectionOnly),
            FALSE),
        FALSE)

\* The results ReplaceCurrent's loop stops at: the cursor is inside, or not
\* behind the start.
IndexesAtCursor(e, cursor) ==
    { i \in 0 .. Len(e.mFind.mFindResults) - 1 :
        \/ /\ ~CoordLT(cursor, e.mFind.mFindResults[i + 1].mStart)
           /\ CoordLT(cursor, e.mFind.mFindResults[i + 1].mEnd)
        \/ ~CoordLT(e.mFind.mFindResults[i + 1].mStart, cursor) }

FocusFirstOf(e, indexes) ==
    FocusFindResult(e, IF indexes = {} THEN 0 ELSE SetMin(indexes))

\* ReplaceCurrent after RefreshFindResults(false)
RefocusAfterReplace(e) ==
    IF ~Ok(e) THEN e
    ELSE IF e.mFind.mFindResults # << >>
    THEN FocusFirstOf(e, IndexesAtCursor(e,
             GetSanitizedCursorCoordinates(e, e.mState.mCurrentCursor)))
    ELSE ClearSelections([e EXCEPT !.mFind.mFindResultIndex = -1])

ReplaceAtIndex(e, index) ==
    SetFindStatus(
        RefocusAfterReplace(
            ReplaceResult([e EXCEPT !.mFind.mFindResultIndex = index],
                          e.mFind.mFindResults[index + 1])),
        "Replaced", StatusShort)

ReplaceFound(e) ==
    IF ~Ok(e) THEN e
    ELSE IF e.mFind.mFindResults = << >>
    THEN SetFindStatus(e, "No matches", StatusMedium)
    ELSE ReplaceAtIndex(e,
             IF \/ e.mFind.mFindResultIndex < 0
                \/ e.mFind.mFindResultIndex >= Len(e.mFind.mFindResults)
             THEN 0 ELSE e.mFind.mFindResultIndex)

\* ReplaceCurrent()
ReplaceCurrent(e) ==
    IF ~Ok(e) THEN e
    ELSE IF ~HasValidFindPattern(e)
    THEN SetFindStatus(e, "Nothing to replace", StatusMedium)
    ELSE ReplaceFound(EnsureFindResultsUpToDate(e))

\* The locals of ReplaceAll; Coordinates::Invalid() is (-1, -1).
ReplaceAllLocals(active, start, end) ==
    [selectionRangeActive |-> active, selectionStart |-> start,
     selectionEnd |-> end, replacements |-> 0,
     lastReplacementStart |-> Coordinates(-1, -1)]

\* ReplaceAll, `if (TryGetSelectionBounds(selectionStart, selectionEnd))'
TakeSelectionBounds(e, bounds) ==
    IF e.mFind.mFindSelectionOnly /\ bounds.ok
    THEN [e EXCEPT !.mFind.mFindSelectionRangeStart = bounds.outStart,
                   !.mFind.mFindSelectionRangeEnd = bounds.outEnd,
                   !.mFind.mFindSelectionRangeValid = TRUE]
    ELSE e

ReplaceAllLocalsOf(e) ==
    IF e.mFind.mFindSelectionOnly /\ e.mFind.mFindSelectionRangeValid
    THEN ReplaceAllLocals(TRUE, Sanitize(e, e.mFind.mFindSelectionRangeStart),
                          Sanitize(e, e.mFind.mFindSelectionRangeEnd))
    ELSE ReplaceAllLocals(FALSE, Coordinates(0, 0), Coordinates(0, 0))

\* The state of a call of ReplaceAll: the editor, the locals, and whether
\* the loop goes on.
ReplaceAllAt(e, locals, more) == [e |-> e, locals |-> locals, more |-> more]

ReplaceAllWithBounds(e) == ReplaceAllAt(e, ReplaceAllLocalsOf(e), TRUE)

\* ReplaceAll() up to its loop; more is false when it has returned 0.
ReplaceAllEnter(e) ==
    IF ~Ok(e) \/ ~HasValidFindPattern(e) \/ e.mFind.mFindResults = << >>
    THEN ReplaceAllAt(IF ~HasValidFindPattern(e)
                      THEN SetFindStatus(e, "Nothing to replace", StatusMedium)
                      ELSE SetFindStatus(e, "No matches", StatusMedium),
                      ReplaceAllLocals(FALSE, Coordinates(0, 0),
                                       Coordinates(0, 0)), FALSE)
    ELSE ReplaceAllWithBounds(TakeSelectionBounds(e, TryGetSelectionBounds(e)))

\* The lambda withinSelectionRange
WithinSelectionRange(locals, result) ==
    \/ ~locals.selectionRangeActive
    \/ /\ ~CoordLT(result.mStart, locals.selectionStart)
       /\ ~CoordLT(locals.selectionEnd, result.mEnd)

TargetIndexes(e, locals) ==
    { i \in 0 .. Len(e.mFind.mFindResults) - 1 :
        WithinSelectionRange(locals, e.mFind.mFindResults[i + 1]) }

ReplaceTarget(e, locals, current) ==
    IF locals.lastReplacementStart = current.mStart
    THEN ReplaceAllAt(e, locals, FALSE)
    ELSE ReplaceAllAt(
             DropSelectionRange(InsertReplacement(e, current),
                                locals.selectionRangeActive),
             [locals EXCEPT !.lastReplacementStart = current.mStart,
                            !.replacements = @ + 1],
             TRUE)

ReplaceFirstOf(e, locals, targets) ==
    IF ~Ok(e) \/ targets = {} THEN ReplaceAllAt(e, locals, FALSE)
    ELSE ReplaceTarget(e, locals, e.mFind.mFindResults[SetMin(targets) + 1])

\* One turn of `while (true)' in ReplaceAll, after EnsureFindResultsUpToDate
ReplaceAllTurn(e, locals) ==
    ReplaceFirstOf(e, locals, TargetIndexes(e, locals))

\* One turn of the loop of ReplaceAll.
ReplaceAllIterate(e, locals) ==
    ReplaceAllTurn(EnsureFindResultsUpToDate(e), locals)

\* ReplaceAll() behind its loop
FocusFirstResult(e) ==
    IF ~Ok(e) THEN e
    ELSE IF e.mFind.mFindResults # << >> THEN FocusFindResult(e, 0)
    ELSE ClearSelections([e EXCEPT !.mFind.mFindResultIndex = -1])

\* "Replaced 1 match", "Replaced 2 matches", ...
ReplacedMatches(replacements) ==
    IF replacements = 1 THEN "Replaced 1 match"
    ELSE "Replaced " \o ToString(replacements) \o " matches"

ReplaceAllLeave(e, replacements) ==
    IF replacements = 0
    THEN SetFindStatus(FocusFirstResult(RefreshFindResults(e, FALSE)),
                       "No matches", StatusMedium)
    ELSE SetFindStatus(FocusFirstResult(RefreshFindResults(e, FALSE)),
                       ReplacedMatches(replacements), StatusLong)

\* The loop of ReplaceAll, run until it is left.
RECURSIVE ReplaceAllLoop(_)
ReplaceAllLoop(call) ==
    IF ~call.more THEN call
    ELSE ReplaceAllLoop(ReplaceAllIterate(call.e, call.locals))

ReplaceAllReturn(call, entered) ==
    IF entered
    THEN ReplaceAllAt(ReplaceAllLeave(call.e, call.locals.replacements),
                      call.locals, FALSE)
    ELSE call

ReplaceAllEntered(call) == ReplaceAllReturn(ReplaceAllLoop(call), call.more)

\* ReplaceAll(): the editor it leaves, and locals.replacements its result.
ReplaceAll(e) ==
    ReplaceAllEntered(ReplaceAllEnter(
        IF HasValidFindPattern(e) THEN EnsureFindResultsUpToDate(e) ELSE e))

(***************************************************************************)
(* One call of Render: the deferred cursor bookkeeping, then the keyboard  *)
(* handler, then the mouse handler.                                        *)
(***************************************************************************)
\* if (mCursorPositionChanged) OnCursorPositionChanged();
\* mCursorPositionChanged = false;
RenderBegin(e) ==
    IF ~Ok(e) THEN e
    ELSE [(IF e.mCursorPositionChanged THEN OnCursorPositionChanged(e) ELSE e)
            EXCEPT !.mCursorPositionChanged = FALSE]

\* The frame times io.DeltaTime takes: 0.06 s and 0.12 s.
DeltaTimes == { 3, 6 }

\* The countdown that takes nothing off the timer.
RenderFindRefreshStuck(e, DeltaTime) ==
    IF ~Ok(e) THEN e
    ELSE IF e.mFind.mFindRefreshPending /\ e.mFind.mFindRefreshTimer > 0
    THEN e
    ELSE EnsureFindResultsUpToDate(
             [e EXCEPT !.mFind.mFindRefreshPending = FALSE,
                       !.mFind.mFindRefreshTimer = 0])

\* Render(aParentIsFocused), `if (mFindRefreshPending)' and the `if' behind
\* it; DeltaTime is io.DeltaTime.
RenderFindRefresh(e, DeltaTime) ==
    IF ~Ok(e) THEN e
    ELSE IF /\ e.mFind.mFindRefreshPending
            /\ Max(0, e.mFind.mFindRefreshTimer - DeltaTime) > 0
    THEN [e EXCEPT !.mFind.mFindRefreshTimer = @ - DeltaTime]
    ELSE EnsureFindResultsUpToDate(
             [e EXCEPT !.mFind.mFindRefreshPending = FALSE,
                       !.mFind.mFindRefreshTimer = 0])

\* `if (mFindStatusTimer > 0.0f)' and its block, in RenderFindReplacePanel
FindStatusCountdown(e, DeltaTime) ==
    IF e.mFind.mFindStatusTimer <= 0 THEN e
    ELSE IF Max(0, e.mFind.mFindStatusTimer - DeltaTime) <= 0
    THEN [e EXCEPT !.mFind.mFindStatusTimer = 0,
                   !.mFind.mFindStatusMessage = ""]
    ELSE [e EXCEPT !.mFind.mFindStatusTimer = @ - DeltaTime]

\* RenderFindReplacePanel in a frame in which none of its widgets is used.
RenderFindReplacePanel(e, DeltaTime) ==
    IF ~Ok(e) THEN e
    ELSE IF ~e.mFind.mShowFindPanel THEN FindStatusCountdown(e, DeltaTime)
    ELSE FindStatusCountdown(EnsureFindResultsUpToDate(e), DeltaTime)

\* Render(aTitle, ...) behind HandleMouseInputs, in a frame in which no
\* widget of the find panel is used.
RenderEnd(e, DeltaTime) ==
    RenderFindReplacePanel(RenderFindRefresh(ColorizeInternal(e), DeltaTime),
                           DeltaTime)

\* "cursorCoords.mLine < mLines.size() - 1 ? {line + 1, 0} : {line, max column}"
LineSelectionTarget(e, cursorCoords) ==
    IF cursorCoords.mLine < LineCount(e) - 1
    THEN Coordinates(cursorCoords.mLine + 1, 0)
    ELSE Coordinates(cursorCoords.mLine, MaxColumn(e, cursorCoords.mLine))

\* HandleMouseInputs, left button pressed at cursorCoords without shift or alt
MouseClick(e, cursorCoords, ctrl, isOverLineNumber) ==
    IF ~Ok(e) THEN e
    ELSE LET e1 == [e EXCEPT !.mDraggingSelection = TRUE]
             e2 == IF ctrl THEN AddCursor(e1) ELSE ClearExtraCursors(e1)
         IN IF isOverLineNumber
            THEN SetSelection(e2, Coordinates(cursorCoords.mLine, 0),
                              LineSelectionTarget(e2, cursorCoords),
                              e2.mState.mCurrentCursor)
            ELSE SetCursorPosition(e2, cursorCoords,
                                   GetLastAddedCursorIndex(e2.mState), TRUE)

\* HandleMouseInputs, a third click on the same spot
MouseTripleClick(e, cursorCoords, ctrl) ==
    MouseClick(e, cursorCoords, ctrl, TRUE)

\* HandleMouseInputs, left button pressed with shift
MouseShiftClick(e, newSelection) ==
    SetCursorPosition(e, newSelection, e.mState.mCurrentCursor, FALSE)

\* HandleMouseInputs, the mouse moved with the left button down
MouseDrag(e, cursorCoords) ==
    IF ~Ok(e) \/ ~e.mDraggingSelection THEN e
    ELSE SetCursorPosition(e, cursorCoords, GetLastAddedCursorIndex(e.mState), FALSE)

\* HandleMouseInputs, left button released
MouseRelease(e, hovered) ==
    IF ~Ok(e) THEN e
    ELSE LET e1 == [e EXCEPT !.mDraggingSelection = FALSE]
         IN IF hovered
            THEN [e1 EXCEPT !.mState =
                     MergeCursorsIfPossible(SortCursorsFromTopToBottom(@))]
            ELSE e1

(***************************************************************************)
(* Bounded inputs                                                          *)
(***************************************************************************)
\* The lines of at most n glyphs.
LinesUpTo(n) == { Flatten(g) : g \in UNION { [1 .. k -> Glyphs] : k \in 0 .. n } }


(***************************************************************************)
(* SpecSanitize: SanitizeCoordinates applied to a coordinate, then to its  *)
(* own result.                                                             *)
(***************************************************************************)
SanMaxGlyphs == 3
SanMaxGlyphsBelow == 1
MinTabSize == 1
MaxTabSize == 8

SanDocs == { << l >> : l \in LinesUpTo(SanMaxGlyphs) }
           \cup { << l, m >> : l \in LinesUpTo(SanMaxGlyphs),
                               m \in LinesUpTo(SanMaxGlyphsBelow) }

RECURSIVE WidestLine(_, _, _)
WidestLine(lines, ts, k) ==
    IF k < 0 THEN 0
    ELSE Max(GetLineMaxColumn(lines, ts, k), WidestLine(lines, ts, k - 1))

InitSanitize ==
    /\ mLines \in SanDocs
    /\ mTabSize \in MinTabSize .. MaxTabSize
    /\ arg \in { Coordinates(l, c) :
                   l \in -1 .. Len(mLines),
                   c \in -1 .. WidestLine(mLines, mTabSize, Len(mLines) - 1) + 1 }
    /\ res = arg
    /\ pc = "input"
    /\ mState = OneCursor
    /\ mUndoBuffer = NoUndo
    /\ mUndoIndex = 0
    /\ mCursorPositionChanged = FALSE
    /\ mDraggingSelection = FALSE
    /\ mReadOnly = FALSE
    /\ mFind = NoFind
    /\ mColor = NoColor
    /\ fault = "none"

SanitizeCall ==
    /\ pc = "input"
    /\ res' = SanitizeCoordinates(mLines, mTabSize, arg)
    /\ pc' = "sanitized"
    /\ UNCHANGED << mLines, mState, mUndoBuffer, mUndoIndex, mTabSize,
                    mCursorPositionChanged, mDraggingSelection, mReadOnly, mFind,
                    mColor, fault, arg >>

SanitizeAgain ==
    /\ pc = "sanitized"
    /\ arg' = [aValue |-> arg, once |-> res]
    /\ res' = SanitizeCoordinates(mLines, mTabSize, res)
    /\ pc' = "again"
    /\ UNCHANGED << mLines, mState, mUndoBuffer, mUndoIndex, mTabSize,
                    mCursorPositionChanged, mDraggingSelection, mReadOnly, mFind,
                    mColor, fault >>

NextSanitize == SanitizeCall \/ SanitizeAgain

SpecSanitize == InitSanitize /\ [][NextSanitize]_vars

\* C10: SanitizeCoordinates is idempotent: applied to its own result, for any
\* document with tabs and multi-byte sequences, any tab size from 1 to 8 and
\* any coordinate, negative and past-the-end ones included, it returns that
\* result unchanged.
C10_SanitizeIdempotent == pc = "again" => res = arg.once

\* The second application has run on the result of a coordinate that lay
\* inside a tab's span, on a line that also holds a multi-byte sequence.
C10_Witness ==
    /\ pc = "again"
    /\ arg.aValue.mLine = 0
    /\ arg.aValue.mColumn > 0
    /\ arg.aValue.mColumn < GetLineMaxColumn(mLines, mTabSize, 0)
    /\ arg.once.mColumn # arg.aValue.mColumn
    /\ \E i \in 1 .. Len(mLines[1]) : IsUTFSequence(mLines[1][i])
    /\ mTabSize > 2

\* The tabs of a line whose visual span holds column strictly inside, as
\* the 0-based glyph indices of the tabs.
TabsAround(lines, ts, aLine, column) ==
    { i \in 0 .. Len(lines[aLine + 1]) - 1 :
        /\ lines[aLine + 1][i + 1] = TAB
        /\ GetCharacterColumn(lines, ts, aLine, i) < column
        /\ column < GetCharacterColumn(lines, ts, aLine, i + 1) }

\* column is moved to the nearer boundary of the span of tab i; either
\* boundary when it is in the middle.
AtNearerBoundary(lines, ts, aLine, i, column, moved) ==
    LET left == GetCharacterColumn(lines, ts, aLine, i)
        right == GetCharacterColumn(lines, ts, aLine, i + 1)
    IN /\ moved \in {left, right}
       /\ moved = left => column - left <= right - column
       /\ moved = right => right - column <= column - left

\* C11: SanitizeCoordinates returns a line in [0, lineCount - 1] and a
\* column in [0, lineMaxColumn(line)] that is never strictly inside a tab's
\* span; for a line of the document the clamped column is kept, or moved to
\* the nearer boundary of the tab it was inside; a line past the end is
\* clamped to the last line.
C11_SanitizeClampsAndSnaps ==
    pc = "sanitized" =>
        LET line == Max(arg.mLine, 0)
            clamped == Min(Max(arg.mColumn, 0),
                           GetLineMaxColumn(mLines, mTabSize, Min(line, Len(mLines) - 1)))
        IN /\ res.mLine \in 0 .. Len(mLines) - 1
           /\ res.mColumn \in 0 .. GetLineMaxColumn(mLines, mTabSize, res.mLine)
           /\ TabsAround(mLines, mTabSize, res.mLine, res.mColumn) = {}
           /\ res.mLine = Min(line, Len(mLines) - 1)
           /\ line < Len(mLines) =>
                 /\ TabsAround(mLines, mTabSize, line, clamped) = {}
                       => res.mColumn = clamped
                 /\ \A i \in TabsAround(mLines, mTabSize, line, clamped) :
                       AtNearerBoundary(mLines, mTabSize, line, i, clamped, res.mColumn)

\* A column nearer to the right end of a tab's span has been moved there, on
\* the second line of a document.
C11_Witness ==
    /\ pc = "sanitized"
    /\ arg.mLine = 1
    /\ Len(mLines) = 2
    /\ TabsAround(mLines, mTabSize, 1, arg.mColumn) # {}
    /\ res.mColumn > arg.mColumn

(***************************************************************************)
(* SpecMerge: MergeCursorsIfPossible on a cursor set sorted by selection   *)
(* start.                                                                  *)
(***************************************************************************)
MergeMaxCursors == 3
MergeMaxColumn == 2

MergeCoordinates == { Coordinates(l, c) : l \in {0, 1}, c \in 0 .. MergeMaxColumn }
MergeCursors == { Cursor(s, e) : s \in MergeCoordinates, e \in MergeCoordinates }

SortedByStart(cs, n) ==
    \A c \in 1 .. n :
        CoordLE(GetSelectionStart(cs[c]), GetSelectionStart(cs[c + 1]))

InitMerge ==
    /\ \E n \in 1 .. MergeMaxCursors :
         \E cs \in [1 .. n -> MergeCursors] :
             \E a \in {0, n - 1} :
                 /\ SortedByStart(cs, n - 1)
                 /\ mState = [mCursors |-> cs, mCurrentCursor |-> n - 1,
                              mLastAddedCursor |-> a]
    /\ arg = mState
    /\ res = 0
    /\ pc = "input"
    /\ mLines = << << >> >>
    /\ mTabSize = 4
    /\ mUndoBuffer = NoUndo
    /\ mUndoIndex = 0
    /\ mCursorPositionChanged = FALSE
    /\ mDraggingSelection = FALSE
    /\ mReadOnly = FALSE
    /\ mFind = NoFind
    /\ mColor = NoColor
    /\ fault = "none"

MergeCall ==
    /\ pc = "input"
    /\ mState' = MergeCursorsIfPossible(mState)
    /\ pc' = "merged"
    /\ UNCHANGED << mLines, mUndoBuffer, mUndoIndex, mTabSize,
                    mCursorPositionChanged, mDraggingSelection, mReadOnly, mFind,
                    mColor, fault, arg, res >>

NextMerge == MergeCall

SpecMerge == InitMerge /\ [][NextMerge]_vars

\* Two cursors overlap when their selections share more than an end point.
Overlap(a, b) ==
    /\ CoordLT(GetSelectionStart(a), GetSelectionEnd(b))
    /\ CoordLT(GetSelectionStart(b), GetSelectionEnd(a))

NoTwoOverlap(st) ==
    \A c, d \in 0 .. st.mCurrentCursor :
        c # d => ~Overlap(st.mCursors[c + 1], st.mCursors[d + 1])

SameRange(st) ==
    \A c \in 0 .. st.mCurrentCursor :
        /\ GetSelectionStart(st.mCursors[c + 1]) = GetSelectionStart(st.mCursors[1])
        /\ GetSelectionEnd(st.mCursors[c + 1]) = GetSelectionEnd(st.mCursors[1])

\* C7: after MergeCursorsIfPossible on a cursor set sorted by selection
\* start, no two remaining cursors overlap, and exactly one cursor remains
\* when all of them covered the same range.
C7_MergeLeavesNoOverlap ==
    pc = "merged" =>
        /\ NoTwoOverlap(mState)
        /\ SameRange(arg) => mState.mCurrentCursor = 0

\* The part of C7 that holds: cursors that all cover one range merge into one.
C7_SameRangeMergesToOne ==
    pc = "merged" /\ SameRange(arg) => mState.mCurrentCursor = 0

Touches(cu, co) ==
    CoordLE(GetSelectionStart(cu), co) /\ CoordLE(co, GetSelectionEnd(cu))

\* C9: after MergeCursorsIfPossible on a sorted cursor set, at most one
\* cursor touches any given Coordinates, two selections that meet end to
\* start included.
C9_OneCursorPerCoordinates ==
    pc = "merged" =>
        \A co \in MergeCoordinates :
            Cardinality({ c \in 0 .. mState.mCurrentCursor :
                            Touches(mState.mCursors[c + 1], co) }) <= 1

(***************************************************************************)
(* The editor driven by its host: calls of the public interface, and calls *)
(* of Render that each handle one keyboard or mouse event.  pc counts the  *)
(* calls made; arg names the last one, with the undo index and the length  *)
(* of the undo buffer it started from; res holds, for every record of the  *)
(* undo history, the document and the cursors before and after the command *)
(* that recorded it.                                                       *)
(***************************************************************************)
CursorSet(st) == SubSeq(st.mCursors, 1, st.mCurrentCursor + 1)
Snapshot(e) == [lines |-> e.mLines, cursors |-> CursorSet(e.mState)]

\* TextEditor::TextEditor()
Init ==
    /\ mLines = << << >> >>
    /\ mState = OneCursor
    /\ mUndoBuffer = NoUndo
    /\ mUndoIndex = 0
    /\ mTabSize = 4
    /\ mCursorPositionChanged = FALSE
    /\ mDraggingSelection = FALSE
    /\ mReadOnly = FALSE
    /\ mFind = NoFind
    /\ mColor = NoColor
    /\ fault = "none"
    /\ pc = 0
    /\ arg = [op |-> "TextEditor", k |-> 0, index |-> 0, size |-> 0]
    /\ res = << >>

\* The history of recorded edits, kept beside the undo buffer: for each
\* UndoRecord, the document and the cursors before and after the edit.
History(pre, e, isEdit) ==
    IF e.mUndoBuffer = << >> THEN << >>
    ELSE IF isEdit /\ e.mUndoIndex = mUndoIndex + 1
    THEN Append(SubLine(res, 0, mUndoIndex),
                [pre |-> Snapshot(pre), post |-> Snapshot(e)])
    ELSE res

\* A call that has returned, or has ended in undefined behaviour.
Returned(limit, op, k, pre, e, isEdit) ==
    /\ pc < limit
    /\ fault # "oob"
    /\ Commit(e)
    /\ pc' = pc + 1
    /\ arg' = [op |-> op, k |-> k,
               index |-> mUndoIndex, size |-> Len(mUndoBuffer)]
    /\ res' = History(pre, e, isEdit)

\* A command of HandleKeyboardInputs or HandleMouseInputs, run on the editor
\* as Render has left it before it handles input, and the rest of the frame:
\* the find refresh of Render and the find panel.
Handled(limit, op, k, pre, command(_), isEdit) ==
    \E DeltaTime \in DeltaTimes :
        \E begun \in { pre } :
            \E handled \in { command(begun) } :
                \E ended \in { RenderEnd(handled, DeltaTime) } :
                    Returned(limit, op, k, begun, ended, isEdit)

\* A command of the keyboard handler that edits the document.
KeyEdit(limit, op, k, command(_)) ==
    Handled(limit, op, k, RenderBegin(Ed), command, TRUE)

\* Any other event handled in a call of Render.
Event(limit, op, command(_)) ==
    Handled(limit, op, 0, RenderBegin(Ed), command, FALSE)

\* RenderFindReplacePanel in a frame in which one of its widgets is used.
PanelWith(e, DeltaTime, command(_)) ==
    IF ~Ok(e) THEN e
    ELSE IF ~e.mFind.mShowFindPanel THEN FindStatusCountdown(e, DeltaTime)
    ELSE command(FindStatusCountdown(EnsureFindResultsUpToDate(e), DeltaTime))

\* A frame in which a widget of the find panel is used and no key or mouse
\* button reaches the editor.
PanelEvent(limit, op, pre, command(_)) ==
    \E DeltaTime \in DeltaTimes :
        \E begun \in { pre } :
            \E drawn \in { RenderFindRefresh(ColorizeInternal(begun), DeltaTime) } :
                \E ended \in { PanelWith(drawn, DeltaTime, command) } :
                    Returned(limit, op, 0, begun, ended, FALSE)

\* ImGui::BeginDisabled(!hasPattern || matchCount == 0 || mReadOnly)
ReplaceDisabled(e) ==
    ~HasValidFindPattern(e) \/ e.mFind.mFindResults = << >> \/ e.mReadOnly

\* Enter pressed while the replace field is active
PanelReplaceEnter(limit) ==
    PanelEvent(limit, "ReplaceCurrent", RenderBegin(Ed), ReplaceCurrent)

\* The Replace button
PanelReplace(limit) ==
    LET command(e) == IF ReplaceDisabled(e) THEN e ELSE ReplaceCurrent(e)
    IN PanelEvent(limit, "Replace", RenderBegin(Ed), command)

\* The Replace All button
PanelReplaceAll(limit) ==
    LET command(e) == IF ReplaceDisabled(e) THEN e ELSE ReplaceAll(e).e
    IN PanelEvent(limit, "ReplaceAll", RenderBegin(Ed), command)

\* The find field: a pattern is entered and Enter pressed, with or without
\* Shift.
PanelFindInput(limit, patterns) ==
    \E pattern \in patterns, shift \in BOOLEAN :
        LET command(e) ==
                FindNext(MarkFindResultsDirty(
                             [e EXCEPT !.mFind.mFindBuffer = pattern], TRUE), shift)
        IN PanelEvent(limit, "FindInput", RenderBegin(Ed), command)

\* ImGui::BeginDisabled(!hasPattern || matchCount == 0)
FindDisabled(e) == ~HasValidFindPattern(e) \/ e.mFind.mFindResults = << >>

\* The buttons "<" and ">"
PanelFindNext(limit) ==
    \E backwards \in BOOLEAN :
        LET command(e) == IF FindDisabled(e) THEN e ELSE FindNext(e, backwards)
        IN PanelEvent(limit, "FindNext", RenderBegin(Ed), command)

\* The toggle "Whole word"
PanelToggleWholeWord(limit) ==
    LET command(e) ==
            MarkFindResultsDirty([e EXCEPT !.mFind.mFindWholeWord = ~@], FALSE)
    IN PanelEvent(limit, "WholeWord", RenderBegin(Ed), command)

\* SetReadOnlyEnabled(aValue), called by the host
CallSetReadOnlyEnabled(limit, values) ==
    \E aValue \in values :
        Returned(limit, "SetReadOnlyEnabled", 0, Ed,
                 [Ed EXCEPT !.mReadOnly = aValue], FALSE)

\* The coordinates ScreenPosToCoordinates can return.
ScreenCoordinates ==
    { Sanitize(Ed, Coordinates(l, c)) :
        l \in 0 .. LineCount(Ed) - 1, c \in 0 .. WidestLine(mLines, mTabSize, Len(mLines) - 1) }

KeyUpArrow(limit, shifts) ==
    \E shift \in shifts :
        LET command(e) == MoveUp(e, 1, shift) IN Event(limit, "MoveUp", command)

KeyDownArrow(limit, shifts) ==
    \E shift \in shifts :
        LET command(e) == MoveDown(e, 1, shift) IN Event(limit, "MoveDown", command)

KeyLeftArrow(limit, shifts) ==
    \E shift \in shifts :
        LET command(e) == MoveLeft(e, shift) IN Event(limit, "MoveLeft", command)

KeyRightArrow(limit, shifts) ==
    \E shift \in shifts :
        LET command(e) == MoveRight(e, shift) IN Event(limit, "MoveRight", command)

KeyHome(limit, shifts) ==
    \E shift \in shifts :
        LET command(e) == MoveHome(e, shift) IN Event(limit, "MoveHome", command)

KeyEnd(limit, shifts) ==
    \E shift \in shifts :
        LET command(e) == MoveEnd(e, shift) IN Event(limit, "MoveEnd", command)

KeyCtrlHome(limit, shifts) ==
    \E shift \in shifts :
        LET command(e) == MoveTop(e, shift) IN Event(limit, "MoveTop", command)

KeyCtrlEnd(limit, shifts) ==
    \E shift \in shifts :
        LET command(e) == MoveBottom(e, shift) IN Event(limit, "MoveBottom", command)

KeySelectAll(limit) ==
    Event(limit, "SelectAll", SelectAll)

\* A character of io.InputQueueCharacters
KeyCharacter(limit, chars) ==
    \E aChar \in chars :
        LET command(e) == IF e.mReadOnly THEN e ELSE EnterCharacter(e, aChar, FALSE)
        IN KeyEdit(limit, "EnterCharacter", aChar, command)

KeyEnter(limit) ==
    LET command(e) == IF e.mReadOnly THEN e ELSE EnterCharacter(e, NL, FALSE)
    IN KeyEdit(limit, "EnterCharacter", NL, command)

KeyTab(limit, shifts) ==
    \E shift \in shifts :
        LET command(e) == IF e.mReadOnly THEN e ELSE EnterCharacter(e, TAB, shift)
        IN KeyEdit(limit, "EnterCharacter", TAB, command)

KeyDelete(limit) ==
    LET command(e) == IF e.mReadOnly THEN e ELSE Delete(e)
    IN KeyEdit(limit, "Delete", 0, command)

KeyBackspace(limit) ==
    LET command(e) == IF e.mReadOnly THEN e ELSE Backspace(e)
    IN KeyEdit(limit, "Backspace", 0, command)

KeyCut(limit) ==
    KeyEdit(limit, "Cut", 0, Cut)

KeyPaste(limit, clips) ==
    \E clipText \in clips :
        LET command(e) == IF e.mReadOnly THEN e ELSE Paste(e, clipText)
        IN KeyEdit(limit, "Paste", 0, command)

KeyBracket(limit, directions) ==
    \E aIncrease \in directions :
        LET command(e) == IF e.mReadOnly THEN e
                          ELSE ChangeCurrentLinesIndentation(e, aIncrease)
        IN KeyEdit(limit, "ChangeCurrentLinesIndentation", 0, command)

KeyMoveLinesUp(limit) ==
    KeyEdit(limit, "MoveUpCurrentLines", 0, MoveUpCurrentLines)

KeyMoveLinesDown(limit) ==
    KeyEdit(limit, "MoveDownCurrentLines", 0, MoveDownCurrentLines)

KeyRemoveLines(limit) ==
    \E ub \in {"trap", "drop-last"} :
        LET command(e) == IF e.mReadOnly THEN e
                          ELSE RemoveCurrentLines([e EXCEPT !.ub = ub])
        IN KeyEdit(limit, "RemoveCurrentLines", 0, command)

KeyUndo(limit) ==
    LET command(e) == IF e.mReadOnly THEN e ELSE UndoSteps(e, 1)
    IN Handled(limit, "KeyUndo", 1, RenderBegin(Ed), command, FALSE)

KeyRedo(limit) ==
    LET command(e) == IF e.mReadOnly THEN e ELSE RedoSteps(e, 1)
    IN Handled(limit, "KeyRedo", 1, RenderBegin(Ed), command, FALSE)

\* Undo(aSteps), called by the host
CallUndo(limit, steps) ==
    \E aSteps \in steps :
        Returned(limit, "Undo", aSteps, Ed, UndoSteps(Ed, aSteps), FALSE)

\* Redo(aSteps), called by the host
CallRedo(limit, steps) ==
    \E aSteps \in steps :
        Returned(limit, "Redo", aSteps, Ed, RedoSteps(Ed, aSteps), FALSE)

CallSetText(limit, texts) ==
    \E aText \in texts :
        Returned(limit, "SetText", 0, Ed, SetText(Ed, aText), FALSE)

CallSetTextLines(limit, lists) ==
    \E aLines \in lists :
        Returned(limit, "SetTextLines", 0, Ed, SetTextLines(Ed, aLines), FALSE)

Click(limit) ==
    \E cursorCoords \in ScreenCoordinates, ctrl \in BOOLEAN :
        LET command(e) == MouseClick(e, cursorCoords, ctrl, FALSE)
        IN Event(limit, IF ctrl THEN "CtrlClick" ELSE "Click", command)

ShiftClick(limit) ==
    \E cursorCoords \in ScreenCoordinates :
        LET command(e) == MouseShiftClick(e, cursorCoords)
        IN Event(limit, "ShiftClick", command)

TripleClick(limit) ==
    \E cursorCoords \in ScreenCoordinates, ctrl \in BOOLEAN :
        LET command(e) == MouseTripleClick(e, cursorCoords, ctrl)
        IN Event(limit, "TripleClick", command)

Drag(limit) ==
    \E cursorCoords \in ScreenCoordinates :
        LET command(e) == MouseDrag(e, cursorCoords)
        IN Event(limit, "Drag", command)

Release(limit) ==
    \E hovered \in BOOLEAN :
        LET command(e) == MouseRelease(e, hovered)
        IN Event(limit, "Release", command)

(***************************************************************************)
(* Spec: every operation, a few calls deep.                                *)
(***************************************************************************)
MaxCalls == 3

TypedCharacters == { 97, 233 }
Texts == { << >>, << 97 >>, << TAB, 97, NL, 97 >> }
LineLists == { << >>, << << 97 >>, << >> >> }
Clips == { << 97 >>, << 97, NL, 97 >> }
StepCounts == { -1, 0, 1, 3 }

Next ==
    \/ KeyUpArrow(MaxCalls, BOOLEAN)
    \/ KeyDownArrow(MaxCalls, BOOLEAN)
    \/ KeyLeftArrow(MaxCalls, BOOLEAN)
    \/ KeyRightArrow(MaxCalls, BOOLEAN)
    \/ KeyHome(MaxCalls, BOOLEAN)
    \/ KeyEnd(MaxCalls, BOOLEAN)
    \/ KeyCtrlHome(MaxCalls, BOOLEAN)
    \/ KeyCtrlEnd(MaxCalls, BOOLEAN)
    \/ KeySelectAll(MaxCalls)
    \/ KeyCharacter(MaxCalls, TypedCharacters)
    \/ KeyEnter(MaxCalls)
    \/ KeyTab(MaxCalls, BOOLEAN)
    \/ KeyDelete(MaxCalls)
    \/ KeyBackspace(MaxCalls)
    \/ KeyCut(MaxCalls)
    \/ KeyPaste(MaxCalls, Clips)
    \/ KeyBracket(MaxCalls, BOOLEAN)
    \/ KeyMoveLinesUp(MaxCalls)
    \/ KeyMoveLinesDown(MaxCalls)
    \/ KeyRemoveLines(MaxCalls)
    \/ KeyUndo(MaxCalls)
    \/ KeyRedo(MaxCalls)
    \/ CallUndo(MaxCalls, StepCounts)
    \/ CallRedo(MaxCalls, StepCounts)
    \/ CallSetText(MaxCalls, Texts)
    \/ CallSetTextLines(MaxCalls, LineLists)
    \/ Click(MaxCalls)
    \/ ShiftClick(MaxCalls)
    \/ TripleClick(MaxCalls)
    \/ Drag(MaxCalls)
    \/ Release(MaxCalls)

Spec == Init /\ [][Next]_vars

\* C1: after any sequence of public operations the document has at least
\* one line.
C1_AtLeastOneLine == Len(mLines) >= 1

\* The commands that record an UndoRecord.
EditCommands ==
    { "EnterCharacter", "Delete", "Backspace", "Cut", "Paste",
      "ChangeCurrentLinesIndentation", "MoveUpCurrentLines",
      "MoveDownCurrentLines", "RemoveCurrentLines" }

\* A step in which an edit command has changed the undo history.
RecordedEdit ==
    /\ arg'.op \in EditCommands
    /\ mUndoIndex' # mUndoIndex \/ mUndoBuffer' # mUndoBuffer

\* C5: recording a new edit discards every record at or after the undo
\* index, appends the new record and advances the index by one, so that
\* right after a recorded edit the index is the length of the history and
\* Redo does nothing; and in every reachable state the index lies between 0
\* and the length of the history.
C5_RecordDiscardsRedoTail ==
    /\ [](0 <= mUndoIndex /\ mUndoIndex <= Len(mUndoBuffer))
    /\ [][RecordedEdit =>
            /\ mUndoIndex' = mUndoIndex + 1
            /\ Len(mUndoBuffer') = mUndoIndex'
            /\ SubLine(mUndoBuffer', 0, mUndoIndex) = SubLine(mUndoBuffer, 0, mUndoIndex)
            /\ \A aSteps \in StepCounts : RedoSteps(Ed', aSteps) = Ed']_vars

\* An edit has been recorded while records that had been undone were still
\* in the history.
C5_Witness ==
    /\ arg.op \in EditCommands
    /\ arg.index < arg.size
    /\ mUndoIndex = arg.index + 1
    /\ Len(mUndoBuffer) = mUndoIndex

\* The call has left the document, the cursors and the history alone, and
\* has not failed.
AtRest == UNCHANGED << mLines, mState, mUndoBuffer, mUndoIndex, fault >>

\* C6: Undo with the undo index at 0, and Redo with the index at the length
\* of the history, change neither the document, the cursors, the history
\* nor the index, whatever the step count (larger than the history, zero or
\* negative); an Undo or Redo of more steps than remain does what the
\* remaining steps do and stops at the boundary.
C6_UndoRedoStopAtBoundary ==
    [][/\ arg'.op = "Undo" /\ mUndoIndex = 0 => AtRest
       /\ arg'.op = "Redo" /\ mUndoIndex = Len(mUndoBuffer) => AtRest
       /\ arg'.op = "Undo" /\ arg'.k > mUndoIndex /\ fault' # "oob" =>
             /\ mUndoIndex' = 0
             /\ mUndoBuffer' = mUndoBuffer
             /\ Snapshot(Ed') = Snapshot(UndoSteps(Ed, mUndoIndex))
       /\ arg'.op = "Redo" /\ arg'.k > Len(mUndoBuffer) - mUndoIndex
            /\ fault' # "oob" =>
             /\ mUndoIndex' = Len(mUndoBuffer)
             /\ mUndoBuffer' = mUndoBuffer
             /\ Snapshot(Ed') =
                  Snapshot(RedoSteps(Ed, Len(mUndoBuffer) - mUndoIndex))]_vars

\* Undo was asked for more steps than the history held, and has stopped at
\* index 0.
C6_Witness ==
    /\ arg.op = "Undo"
    /\ arg.index > 0
    /\ arg.k > arg.index
    /\ mUndoIndex = 0
    /\ fault = "none"

SortedNoOverlap(st) ==
    /\ SortedByStart(st.mCursors, st.mCurrentCursor)
    /\ NoTwoOverlap(st)

\* C8: whenever an operation has moved, added or removed cursors, the cursor
\* set the next operation starts from (the one Render leaves before it
\* handles input) is sorted by selection start and holds no two overlapping
\* cursors.
C8_SortedBeforeNextOperation ==
    fault = "none" => SortedNoOverlap(RenderBegin(Ed).mState)


(***************************************************************************)
(* SpecHistory: edit commands, Undo and Redo on a document the host has    *)
(* set, with one cursor.                                                   *)
(***************************************************************************)
HistMaxCalls == 4

\* "", and "aa" above a line that starts with a tab
HistTexts == { << >>, << 97, 97, NL, TAB, 97 >> }
HistCharacters == { 97 }
HistSteps == { 1, 2 }

\* The editor after construction and one call of SetText.
InitHistory ==
    /\ mLines \in { TextToLines(aText, << << >> >>) : aText \in HistTexts }
    /\ mState = OneCursor
    /\ mUndoBuffer = NoUndo
    /\ mUndoIndex = 0
    /\ mTabSize = 4
    /\ mCursorPositionChanged = FALSE
    /\ mDraggingSelection = FALSE
    /\ mReadOnly = FALSE
    /\ mFind = NoFind
    /\ mColor = NoColor
    /\ fault = "none"
    /\ pc = 0
    /\ arg = [op |-> "SetText", k |-> 0, index |-> 0, size |-> 0]
    /\ res = << >>

NextHistory ==
    \/ KeyEnd(HistMaxCalls, {FALSE})
    \/ KeyDownArrow(HistMaxCalls, {FALSE})
    \/ KeyRightArrow(HistMaxCalls, BOOLEAN)
    \/ KeyCharacter(HistMaxCalls, HistCharacters)
    \/ KeyEnter(HistMaxCalls)
    \/ KeyDelete(HistMaxCalls)
    \/ KeyBackspace(HistMaxCalls)
    \/ KeyBracket(HistMaxCalls, BOOLEAN)
    \/ CallUndo(HistMaxCalls, HistSteps)
    \/ CallRedo(HistMaxCalls, HistSteps)

SpecHistory == InitHistory /\ [][NextHistory]_vars

\* C2: Undo(k) restores the document and the cursor set that held before the
\* last k recorded edits, and Redo(k) the document and the cursor set that
\* held after the k-th edit ahead, for every k the history allows.
C2_UndoRedoRestore ==
    [][/\ arg'.op = "Undo" /\ arg'.k \in 1 .. mUndoIndex =>
             Snapshot(Ed') = res[mUndoIndex - arg'.k + 1].pre
       /\ arg'.op = "Redo" /\ arg'.k \in 1 .. Len(mUndoBuffer) - mUndoIndex =>
             Snapshot(Ed') = res[mUndoIndex + arg'.k].post]_vars

\* The place of a coordinate in DocText: the glyph index GetText reads from.
RECURSIVE TextOffset(_, _, _)
TextOffset(lines, ts, co) ==
    IF co.mLine = 0 THEN GetCharacterIndexR(lines, ts, co)
    ELSE Len(lines[1]) + 1
           + TextOffset(Tail(lines), ts, Coordinates(co.mLine - 1, co.mColumn))

\* The document with the selection of cu replaced by text.
ReplacedSelection(lines, ts, cu, text) ==
    SubLine(DocText(lines), 0, TextOffset(lines, ts, GetSelectionStart(cu)))
      \o text
      \o SubLine(DocText(lines), TextOffset(lines, ts, GetSelectionEnd(cu)),
                 Len(DocText(lines)))

SameRangeAs(a, b) ==
    GetSelectionStart(a) = GetSelectionStart(b) /\ GetSelectionEnd(a) = GetSelectionEnd(b)

\* The unprimed state holds one cursor with a selection, and the step types
\* a character.
TypesOverSelection ==
    /\ arg'.op = "EnterCharacter"
    /\ arg'.k \in HistCharacters
    /\ fault = "none"
    /\ RenderBegin(Ed).mState.mCurrentCursor = 0
    /\ HasSelection(RenderBegin(Ed).mState.mCursors[1])

\* C3: with one cursor that selects a non-empty range, entering a character
\* replaces exactly the selected text with that character and records one
\* undo record; undoing it restores the text and selects the range again.
C3_TypingReplacesSelection ==
    [][TypesOverSelection =>
          /\ DocText(mLines') =
               ReplacedSelection(mLines, mTabSize, RenderBegin(Ed).mState.mCursors[1],
                                 ImTextCharToUtf8(arg'.k))
          /\ mUndoIndex' = mUndoIndex + 1
          /\ Len(mUndoBuffer') = mUndoIndex + 1
          /\ UndoSteps(Ed', 1).mLines = mLines
          /\ UndoSteps(Ed', 1).mState.mCurrentCursor = 0
          /\ SameRangeAs(UndoSteps(Ed', 1).mState.mCursors[1],
                         RenderBegin(Ed).mState.mCursors[1])]_vars

(***************************************************************************)
(* SpecInsDel: InsertTextAt(c, t), then DeleteRange(c, c') with the c' the *)
(* insertion has returned, on a document with one cursor.                  *)
(***************************************************************************)
InsDelMaxGlyphs == 2
InsDelMaxGlyphsBelow == 1

InsDelDocs == { << l >> : l \in LinesUpTo(InsDelMaxGlyphs) }
              \cup { << l, m >> : l \in LinesUpTo(InsDelMaxGlyphs),
                                  m \in LinesUpTo(InsDelMaxGlyphsBelow) }

\* text without '\r': a letter, a tab, a line feed, and a mix of them
InsDelTexts == { << 97 >>, << TAB >>, << NL >>, << 97, NL, TAB >> }

\* The coordinates SanitizeCoordinates returns on a document.
ValidCoordinates(lines, ts) ==
    { SanitizeCoordinates(lines, ts, Coordinates(l, c)) :
        l \in 0 .. Len(lines) - 1,
        c \in 0 .. WidestLine(lines, ts, Len(lines) - 1) }

InitInsDel ==
    /\ mLines \in InsDelDocs
    /\ mTabSize = 4
    /\ \E s \in ValidCoordinates(mLines, mTabSize) :
         \E e \in ValidCoordinates(mLines, mTabSize) :
             mState = [mCursors |-> << Cursor(s, e) >>,
                       mCurrentCursor |-> 0, mLastAddedCursor |-> 0]
    /\ \E c \in ValidCoordinates(mLines, mTabSize) :
         \E t \in InsDelTexts :
             arg = [aWhere |-> c, aValue |-> t,
                    lines |-> mLines, cursors |-> CursorSet(mState)]
    /\ res = arg.aWhere
    /\ pc = "input"
    /\ mUndoBuffer = NoUndo
    /\ mUndoIndex = 0
    /\ mCursorPositionChanged = FALSE
    /\ mDraggingSelection = FALSE
    /\ mReadOnly = FALSE
    /\ mFind = NoFind
    /\ mColor = NoColor
    /\ fault = "none"

\* InsertTextAt(aWhere, aValue); res is aWhere on return
InsertCall ==
    /\ pc = "input"
    /\ Commit(InsertTextAt(Ed, arg.aWhere, arg.aValue)[1])
    /\ res' = InsertTextAt(Ed, arg.aWhere, arg.aValue)[2]
    /\ pc' = "inserted"
    /\ arg' = arg

\* DeleteRange(c, c')
DeleteCall ==
    /\ pc = "inserted"
    /\ fault # "oob"
    /\ Commit(DeleteRange(Ed, arg.aWhere, res))
    /\ pc' = "deleted"
    /\ UNCHANGED << arg, res >>

NextInsDel == InsertCall \/ DeleteCall

SpecInsDel == InitInsDel /\ [][NextInsDel]_vars

\* C4: InsertTextAt(c, t) followed by DeleteRange(c, c') leaves the document
\* and the anchor and head of every cursor as they were before the insert.
C4_InsertDeleteRestores ==
    pc = "deleted" =>
        /\ fault = "none"
        /\ mLines = arg.lines
        /\ CursorSet(mState) = arg.cursors

(***************************************************************************)
(* SpecDeleteRange: one call of DeleteRange with its two coordinates in    *)
(* either order, on a document the find engine has searched.  arg holds    *)
(* the arguments and the document, the cursors and the find engine's       *)
(* members before the call.                                                *)
(***************************************************************************)
\* An editor at rest on a document.
EditorOn(lines, ts, st, find) ==
    [ mLines |-> lines, mState |-> st, mUndoBuffer |-> NoUndo, mUndoIndex |-> 0,
      mTabSize |-> ts, mCursorPositionChanged |-> FALSE,
      mDraggingSelection |-> FALSE, fault |-> "none", mReadOnly |-> FALSE,
      mFind |-> find, mColor |-> NoColor, u |-> << >>,
      coords |-> << >>, ub |-> "trap" ]

\* The find engine's members once a frame has searched the document for
\* the pattern entered in the panel.
Searched(lines, ts, st, find) ==
    RefreshFindResults(EditorOn(lines, ts, st, find), TRUE).mFind

DelPatterns == { << 97 >>, << TAB >> }

InitDeleteRange ==
    /\ mColor = NoColor
    /\ mLines \in InsDelDocs
    /\ mTabSize = 4
    /\ \E s \in ValidCoordinates(mLines, mTabSize) :
         \E e \in ValidCoordinates(mLines, mTabSize) :
             mState = [mCursors |-> << Cursor(s, e) >>,
                       mCurrentCursor |-> 0, mLastAddedCursor |-> 0]
    /\ \E pattern \in DelPatterns :
         mFind = Searched(mLines, mTabSize, mState,
                          [NoFind EXCEPT !.mFindBuffer = pattern,
                                         !.mShowFindPanel = TRUE])
    /\ \E aStart \in ValidCoordinates(mLines, mTabSize) :
         \E aEnd \in ValidCoordinates(mLines, mTabSize) :
             arg = [aStart |-> aStart, aEnd |-> aEnd, lines |-> mLines,
                    cursors |-> CursorSet(mState), find |-> mFind]
    /\ res = << >>
    /\ pc = "input"
    /\ mUndoBuffer = NoUndo
    /\ mUndoIndex = 0
    /\ mCursorPositionChanged = FALSE
    /\ mDraggingSelection = FALSE
    /\ mReadOnly = FALSE
    /\ fault = "none"

\* DeleteRange(aStart, aEnd)
DeleteRangeCall ==
    /\ pc = "input"
    /\ Commit(DeleteRange(Ed, arg.aStart, arg.aEnd))
    /\ pc' = "returned"
    /\ UNCHANGED << arg, res >>

NextDeleteRange == DeleteRangeCall

SpecDeleteRange == InitDeleteRange /\ [][NextDeleteRange]_vars

\* C12: DeleteRange called with end < start is rejected before any
\* mutation: the document, its line count, the cursors, the find-dirty flag
\* and the highlight cache are as they were before the call.
C12_InvertedRangeRejected ==
    pc = "returned" /\ CoordLT(arg.aEnd, arg.aStart) =>
        /\ mLines = arg.lines
        /\ Len(mLines) = Len(arg.lines)
        /\ CursorSet(mState) = arg.cursors
        /\ mFind.mFindResultsDirty = arg.find.mFindResultsDirty
        /\ mFind.mFindHighlightsCache = arg.find.mFindHighlightsCache

(***************************************************************************)
(* SpecReadOnly: the commands of the keyboard handler and of the find      *)
(* panel, delivered to an editor the host switches between writable and    *)
(* read-only.  The document has been searched for a pattern, and the       *)
(* replace field holds a text.                                             *)
(***************************************************************************)
RoMaxCalls == 3

RoTexts == { << 97 >>, << 97, NL, 97 >> }

InitReadOnly ==
    /\ \E aText \in RoTexts : mLines = TextToLines(aText, << << >> >>)
    /\ mState = OneCursor
    /\ mTabSize = 4
    /\ mFind = Searched(mLines, mTabSize, mState,
                        [NoFind EXCEPT !.mFindBuffer = << 97 >>,
                                       !.mReplaceBuffer = << 98 >>,
                                       !.mShowFindPanel = TRUE])
    /\ mColor = NoColor
    /\ mReadOnly \in BOOLEAN
    /\ mUndoBuffer = NoUndo
    /\ mUndoIndex = 0
    /\ mCursorPositionChanged = FALSE
    /\ mDraggingSelection = FALSE
    /\ fault = "none"
    /\ pc = 0
    /\ arg = [op |-> "SetText", k |-> 0, index |-> 0, size |-> 0]
    /\ res = << >>

NextReadOnly ==
    \/ CallSetReadOnlyEnabled(RoMaxCalls, BOOLEAN)
    \/ KeyDownArrow(RoMaxCalls, {TRUE})
    \/ KeyCharacter(RoMaxCalls, {98})
    \/ KeyEnter(RoMaxCalls)
    \/ KeyTab(RoMaxCalls, {FALSE})
    \/ KeyDelete(RoMaxCalls)
    \/ KeyBackspace(RoMaxCalls)
    \/ KeyCut(RoMaxCalls)
    \/ KeyPaste(RoMaxCalls, { << 98 >> })
    \/ KeyBracket(RoMaxCalls, {TRUE})
    \/ KeyMoveLinesUp(RoMaxCalls)
    \/ KeyMoveLinesDown(RoMaxCalls)
    \/ KeyRemoveLines(RoMaxCalls)
    \/ KeyUndo(RoMaxCalls)
    \/ KeyRedo(RoMaxCalls)
    \/ PanelReplaceEnter(RoMaxCalls)
    \/ PanelReplace(RoMaxCalls)
    \/ PanelReplaceAll(RoMaxCalls)

SpecReadOnly == InitReadOnly /\ [][NextReadOnly]_vars

\* C13: while the editor is read-only no command of the input layer reaches
\* a structural mutation: the document text and the undo history stay as
\* they are, and no assertion fails.
C13_ReadOnlyBlocksCommands ==
    [][mReadOnly /\ mReadOnly' /\ fault = "none" =>
          /\ mLines' = mLines
          /\ mUndoBuffer' = mUndoBuffer
          /\ mUndoIndex' = mUndoIndex
          /\ fault' = "none"]_vars

(***************************************************************************)
(* SpecFindLiteral: RefreshFindResults on a document, a pattern, the two   *)
(* flags of the literal search and a search range: the whole document, or  *)
(* with mFindSelectionOnly the selection of the cursor.  arg holds the     *)
(* offsets of the range in the flattened text.                             *)
(***************************************************************************)
FindMaxGlyphs == 3

FindGlyphs == { << 97 >>, << 65 >>, << SPACE >>, << NL >>, GlyphTab, GlyphE }

\* "Foo bar foo", "foofoo foo" and "foo"
FooBarFoo == << 70, 111, 111, 32, 98, 97, 114, 32, 102, 111, 111 >>
FooFooFoo == << 102, 111, 111, 102, 111, 111, 32, 102, 111, 111 >>
Foo == << 102, 111, 111 >>

FindTexts ==
    { Flatten(g) : g \in UNION { [1 .. k -> FindGlyphs] : k \in 0 .. FindMaxGlyphs } }
      \cup { FooBarFoo, FooFooFoo }

FindPatterns == { << 97 >>, << 97, 97 >>, << 65 >>, Foo }

InitFindLiteral ==
    /\ mColor = NoColor
    /\ \E aText \in FindTexts : mLines = TextToLines(aText, << << >> >>)
    /\ mTabSize = 4
    /\ \E s \in ValidCoordinates(mLines, mTabSize) :
         \E e \in ValidCoordinates(mLines, mTabSize) :
             /\ CoordLE(s, e)
             /\ mState = [mCursors |-> << Cursor(s, e) >>,
                          mCurrentCursor |-> 0, mLastAddedCursor |-> 0]
    /\ \E pattern \in FindPatterns :
         \E flags \in [caseSensitive : BOOLEAN, wholeWord : BOOLEAN,
                        selectionOnly : BOOLEAN] :
             mFind = [NoFind EXCEPT !.mFindBuffer = pattern,
                                    !.mShowFindPanel = TRUE,
                                    !.mFindCaseSensitive = flags.caseSensitive,
                                    !.mFindWholeWord = flags.wholeWord,
                                    !.mFindSelectionOnly = flags.selectionOnly]
    /\ arg = IF mFind.mFindSelectionOnly /\ HasSelection(mState.mCursors[1])
             THEN [from |-> TextOffset(mLines, mTabSize,
                                       mState.mCursors[1].mInteractiveStart),
                   to |-> TextOffset(mLines, mTabSize,
                                     mState.mCursors[1].mInteractiveEnd)]
             ELSE [from |-> 0, to |-> Len(DocText(mLines))]
    /\ res = << >>
    /\ pc = "input"
    /\ mUndoBuffer = NoUndo
    /\ mUndoIndex = 0
    /\ mCursorPositionChanged = FALSE
    /\ mDraggingSelection = FALSE
    /\ mReadOnly = FALSE
    /\ fault = "none"

\* RefreshFindResults(false)
RefreshCall ==
    /\ pc = "input"
    /\ Commit(RefreshFindResults(Ed, FALSE))
    /\ pc' = "searched"
    /\ UNCHANGED << arg, res >>

NextFindLiteral == RefreshCall

SpecFindLiteral == InitFindLiteral /\ [][NextFindLiteral]_vars

\* The results as pairs of offsets in the flattened text.
ResultOffsets ==
    [i \in 1 .. Len(mFind.mFindResults) |->
        << TextOffset(mLines, mTabSize, mFind.mFindResults[i].mStart),
           TextOffset(mLines, mTabSize, mFind.mFindResults[i].mEnd) >>]

\* The text the pattern is compared with, and the pattern as compared.
Folded(text) == IF mFind.mFindCaseSensitive THEN text ELSE LowerCase(text)

\* The offsets at which the pattern occurs inside the range.
Occurrences ==
    { o \in arg.from .. arg.to - Len(mFind.mFindBuffer) :
        SubSeq(Folded(DocText(mLines)), o + 1, o + Len(mFind.mFindBuffer))
          = Folded(mFind.mFindBuffer) }

\* starts are the leftmost-first, non-overlapping choice among occ.
LeftmostNonOverlapping(starts, occ, length) ==
    /\ starts \subseteq occ
    /\ \A a \in starts : \A b \in starts : a < b => a + length <= b
    /\ \A o \in occ \ starts : \E a \in starts : a < o /\ o < a + length

ResultsAre(starts, length) ==
    /\ Len(ResultOffsets) = Cardinality(starts)
    /\ \A i \in 1 .. Len(ResultOffsets) :
         /\ ResultOffsets[i][1] \in starts
         /\ ResultOffsets[i][2] = ResultOffsets[i][1] + length
         /\ i > 1 => ResultOffsets[i - 1][1] < ResultOffsets[i][1]

\* C15: the literal search returns exactly the leftmost-first,
\* non-overlapping occurrences of the pattern inside the active range, in
\* increasing order, on case-folded text when it is case-insensitive and on
\* the bytes when it is case-sensitive: "foo" in "Foo bar foo" gives [0,3)
\* and [8,11).
C15_LiteralSearchLeftmost ==
    pc = "searched" /\ ~mFind.mFindWholeWord =>
        /\ \E starts \in SUBSET Occurrences :
             /\ LeftmostNonOverlapping(starts, Occurrences, Len(mFind.mFindBuffer))
             /\ ResultsAre(starts, Len(mFind.mFindBuffer))
        /\ DocText(mLines) = FooBarFoo /\ mFind.mFindBuffer = Foo
             /\ ~mFind.mFindCaseSensitive /\ arg.from = 0 /\ arg.to = 11
           => ResultOffsets = << << 0, 3 >>, << 8, 11 >> >>

C15_Witness ==
    /\ pc = "searched" /\ ~mFind.mFindWholeWord /\ ~mFind.mFindCaseSensitive
    /\ DocText(mLines) = << 65, 97, 97 >>
    /\ mFind.mFindBuffer = << 97, 97 >>
    /\ Len(mFind.mFindResults) = 1
    /\ Cardinality(Occurrences) = 2

\* The first byte of the character that ends at offset.
RECURSIVE LeadByteBefore(_, _)
LeadByteBefore(text, offset) ==
    IF offset > 1 /\ IsUTFSequence(text[offset])
    THEN LeadByteBefore(text, offset - 1)
    ELSE text[offset]

\* The characters of the document before and behind an occurrence are not
\* word characters, or do not exist.
WholeWordAt(text, o, length) ==
    /\ o = 0 \/ ~CharIsWordChar(LeadByteBefore(text, o))
    /\ o + length >= Len(text) \/ ~CharIsWordChar(text[o + length + 1])

WholeWordOccurrences ==
    { o \in Occurrences :
        WholeWordAt(DocText(mLines), o, Len(mFind.mFindBuffer)) }

\* C16: with wholeWord the literal search returns a result exactly for the
\* occurrences whose preceding and following characters in the document are
\* not word characters or do not exist, also for an occurrence at the
\* boundary of a selection-scoped range: "foo" in "foofoo foo" gives [7,10)
\* only.
C16_WholeWordBoundaries ==
    pc = "searched" /\ mFind.mFindWholeWord =>
        /\ \E starts \in SUBSET WholeWordOccurrences :
             /\ LeftmostNonOverlapping(starts, WholeWordOccurrences,
                                       Len(mFind.mFindBuffer))
             /\ ResultsAre(starts, Len(mFind.mFindBuffer))
        /\ DocText(mLines) = FooFooFoo /\ mFind.mFindBuffer = Foo
             /\ arg.from = 0 /\ arg.to = 10
           => ResultOffsets = << << 7, 10 >> >>

(***************************************************************************)
(* SpecReplace: ReplaceCurrent, then Undo, on a document the find engine   *)
(* has searched for the pattern.  arg holds the flattened text, the        *)
(* results as offsets, the index of the active result and the state of the *)
(* history before the call.                                                *)
(***************************************************************************)
ReplMaxGlyphs == 3

ReplGlyphs == { << 97 >>, << SPACE >>, << NL >> }

ReplTexts ==
    { Flatten(g) : g \in UNION { [1 .. k -> ReplGlyphs] : k \in 0 .. ReplMaxGlyphs } }

ReplPatterns == { << 97 >>, << 97, 97 >> }

\* empty, shorter, equal to a pattern, holding a pattern, longer, two lines
Replacements == { << >>, << 98 >>, << 97 >>, << 97, 97 >>, << 98, 98 >>,
                  << 98, NL, 97 >> }

\* the cursors with an ordered selection on a document
ReplaceCursors(lines) ==
    { Cursor(c[1], c[2]) :
        c \in { d \in ValidCoordinates(lines, 4) \X ValidCoordinates(lines, 4) :
                   CoordLE(d[1], d[2]) } }

ReplaceState(cursor) ==
    [mCursors |-> << cursor >>, mCurrentCursor |-> 0, mLastAddedCursor |-> 0]

\* the panel with a pattern, a replacement and flags, after a search
ReplaceSearches(lines, cursor) ==
    { Searched(lines, 4, ReplaceState(cursor),
               [NoFind EXCEPT
                    !.mFindBuffer = f[1],
                    !.mReplaceBuffer = f[2],
                    !.mShowFindPanel = TRUE,
                    !.mFindWholeWord = f[3],
                    !.mFindSelectionOnly = f[4] /\ HasSelection(cursor)]) :
        f \in ReplPatterns \X Replacements \X BOOLEAN \X BOOLEAN }

ReplaceInputsOn(lines) ==
    UNION { { [lines |-> lines, cursor |-> c, find |-> f] :
                f \in ReplaceSearches(lines, c) } : c \in ReplaceCursors(lines) }

ReplaceInputs(texts) ==
    UNION { ReplaceInputsOn(TextToLines(aText, << << >> >>)) : aText \in texts }

\* the results as pairs of offsets into the text
OffsetsOf(lines, find) ==
    [k \in 1 .. Len(find.mFindResults) |->
        << TextOffset(lines, 4, find.mFindResults[k].mStart),
           TextOffset(lines, 4, find.mFindResults[k].mEnd) >>]

ReplaceArg(i) ==
    [text |-> DocText(i.lines), matches |-> OffsetsOf(i.lines, i.find),
     active |-> i.find.mFindResultIndex, index |-> 0, size |-> 0]

InitReplace ==
    /\ mColor = NoColor
    /\ \E i \in ReplaceInputs(ReplTexts) :
          /\ mLines = i.lines
          /\ mState = ReplaceState(i.cursor)
          /\ mFind = i.find
          /\ arg = ReplaceArg(i)
    /\ mTabSize = 4
    /\ res = << >>
    /\ pc = "input"
    /\ mUndoBuffer = NoUndo
    /\ mUndoIndex = 0
    /\ mCursorPositionChanged = FALSE
    /\ mDraggingSelection = FALSE
    /\ mReadOnly = FALSE
    /\ fault = "none"

\* ReplaceCurrent()
ReplaceCurrentCall ==
    /\ pc = "input"
    /\ Commit(ReplaceCurrent(Ed))
    /\ pc' = "replaced"
    /\ UNCHANGED << arg, res >>

\* Undo() right after it
UndoCall ==
    /\ pc = "replaced"
    /\ fault # "oob"
    /\ Commit(UndoSteps(Ed, 1))
    /\ pc' = "undone"
    /\ UNCHANGED << arg, res >>

NextReplace == ReplaceCurrentCall \/ UndoCall

SpecReplace == InitReplace /\ [][NextReplace]_vars

\* text with the bytes from offset from up to offset to replaced
Spliced(text, from, to, replacement) ==
    SubSeq(text, 1, from) \o replacement \o SubSeq(text, to + 1, Len(text))

\* C17: ReplaceCurrent with a pattern and at least one match leaves the
\* previous text with exactly the range of the active result removed and
\* the replacement text in its place.
C17_ReplaceCurrentReplacesRange ==
    pc = "replaced" /\ arg.matches # << >> =>
        DocText(mLines) = Spliced(arg.text, arg.matches[arg.active + 1][1],
                                  arg.matches[arg.active + 1][2],
                                  mFind.mReplaceBuffer)

\* C18: a successful ReplaceCurrent appends one undo record, the undo index
\* advancing by one, and an Undo right after it restores the text that held
\* before the replacement.
C18_ReplaceCurrentRecordsUndo ==
    /\ pc = "replaced" /\ arg.matches # << >> =>
           mUndoIndex = arg.index + 1 /\ Len(mUndoBuffer) = arg.size + 1
    /\ pc = "undone" /\ arg.matches # << >> => DocText(mLines) = arg.text

(***************************************************************************)
(* SpecReplaceAll: one call of ReplaceAll, a step for its head, for each   *)
(* turn of its loop and for its tail.  res holds the locals of the call;   *)
(* pc is "done" when it has returned res.replacements.                     *)
(***************************************************************************)
\* The turns of the loop the model follows: more than twice the matches a
\* document of ReplMaxGlyphs glyphs can hold.
ReplMaxTurns == 8

InitReplaceAll ==
    /\ InitReplace

ReplaceAllMove(call, next) ==
    /\ Commit(call.e)
    /\ res' = call.locals
    /\ pc' = IF call.more THEN "loop" ELSE next
    /\ arg' = arg

\* ReplaceAll() up to `while (true)'
ReplaceAllHead ==
    /\ pc = "input"
    /\ \E call \in { ReplaceAllEnter(EnsureFindResultsUpToDate(Ed)) } :
          ReplaceAllMove(call, "done")

\* One turn of the loop.
ReplaceAllLoopTurn ==
    /\ pc = "loop"
    /\ fault # "oob"
    /\ res.replacements < ReplMaxTurns
    /\ \E call \in { ReplaceAllIterate(Ed, res) } :
          ReplaceAllMove(call, "leave")

\* ReplaceAll() behind the loop
ReplaceAllTail ==
    /\ pc = "leave"
    /\ fault # "oob"
    /\ \E e \in { ReplaceAllLeave(Ed, res.replacements) } : Commit(e)
    /\ pc' = "done"
    /\ UNCHANGED << arg, res >>

NextReplaceAll == ReplaceAllHead \/ ReplaceAllLoopTurn \/ ReplaceAllTail

SpecReplaceAll == InitReplaceAll /\ [][NextReplaceAll]_vars

\* text with each of the first k matches replaced
RECURSIVE ReplacedEach(_, _, _, _)
ReplacedEach(text, matches, k, replacement) ==
    IF k = 0 THEN text
    ELSE ReplacedEach(Spliced(text, matches[k][1], matches[k][2], replacement),
                      matches, k - 1, replacement)

\* C19: ReplaceAll replaces every match that exists in the target range
\* when it is called, each once, and returns their number, also when the
\* replacement holds the pattern or is longer than the match: "a" replaced
\* by "bb" in "aaa" leaves "bbbbbb" and returns 3.
C19_ReplaceAllReplacesEveryMatch ==
    pc = "done" =>
        /\ DocText(mLines) = ReplacedEach(arg.text, arg.matches,
                                          Len(arg.matches), mFind.mReplaceBuffer)
        /\ res.replacements = Len(arg.matches)
        /\ arg.text = << 97, 97, 97 >> /\ mFind.mFindBuffer = << 97 >>
             /\ mFind.mReplaceBuffer = << 98, 98 >> /\ Len(arg.matches) = 3
           => /\ DocText(mLines) = << 98, 98, 98, 98, 98, 98 >>
              /\ res.replacements = 3

\* C20: ReplaceAll terminates for every document, pattern, replacement and
\* flag combination: its loop stops when no result remains in the target
\* range or the next candidate starts where the last replacement started.  A
\* call on a document of ReplMaxGlyphs glyphs has left its loop before it
\* has made ReplMaxTurns replacements.
C20_ReplaceAllTerminates == pc = "loop" => res.replacements < ReplMaxTurns

(***************************************************************************)
(* SpecFind: editing commands, calls of the host and the widgets of the    *)
(* find panel in any order, on a document that has been searched.  A frame *)
(* in which the deferred refresh has not expired leaves the results as     *)
(* they are.                                                               *)
(***************************************************************************)
FindMaxCalls == 3

FindDocs == { << 97 >>, << 97, NL, 97 >> }

InitFind ==
    /\ \E aText \in FindDocs : mLines = TextToLines(aText, << << >> >>)
    /\ mState = OneCursor
    /\ mTabSize = 4
    /\ mFind = Searched(mLines, mTabSize, mState,
                        [NoFind EXCEPT !.mFindBuffer = << 97 >>,
                                       !.mReplaceBuffer = << 98 >>,
                                       !.mShowFindPanel = TRUE])
    /\ mColor = NoColor
    /\ mReadOnly = FALSE
    /\ mUndoBuffer = NoUndo
    /\ mUndoIndex = 0
    /\ mCursorPositionChanged = FALSE
    /\ mDraggingSelection = FALSE
    /\ fault = "none"
    /\ pc = 0
    /\ arg = [op |-> "SetText", k |-> 0, index |-> 0, size |-> 0]
    /\ res = << >>

NextFind ==
    \/ KeyCharacter(FindMaxCalls, {97})
    \/ KeyBackspace(FindMaxCalls)
    \/ KeyPaste(FindMaxCalls, { << 97 >> })
    \/ KeyMoveLinesDown(FindMaxCalls)
    \/ KeyRemoveLines(FindMaxCalls)
    \/ KeyUndo(FindMaxCalls)
    \/ CallUndo(FindMaxCalls, {1})
    \/ CallRedo(FindMaxCalls, {1})
    \/ CallSetText(FindMaxCalls, { << 97, 97 >> })
    \/ PanelFindInput(FindMaxCalls, { << 97 >>, << 97, 97 >> })
    \/ PanelFindNext(FindMaxCalls)
    \/ PanelToggleWholeWord(FindMaxCalls)
    \/ PanelReplace(FindMaxCalls)
    \/ PanelReplaceAll(FindMaxCalls)

SpecFind == InitFind /\ [][NextFind]_vars

\* The document is not the one the results were computed from.
ResultsStale == mFind.mFindResults # << >> /\ mFind.computedFrom # mLines

\* EnsureFindResultsUpToDate would search again.
StaleDetectable ==
    \/ mFind.mFindResultsDirty
    \/ mFind.mFindLastUndoIndex # mUndoIndex
    \/ mFind.mFindLastUndoBufferSize # Len(mUndoBuffer)

C26_CursorSetValid ==
    fault # "oob" =>
        /\ mState.mCurrentCursor + 1 >= 1
        /\ mState.mCurrentCursor + 1 <= Len(mState.mCursors)
        /\ GetLastAddedCursorIndex(mState) \in 0 .. mState.mCurrentCursor

\* A cursor was added and the extra cursors were cleared again: the stored
\* last-added index is past the live cursors.
C26_Witness ==
    /\ fault = "none"
    /\ mState.mLastAddedCursor > mState.mCurrentCursor
    /\ Len(mState.mCursors) > mState.mCurrentCursor + 1


(***************************************************************************)
(* SpecSetSelection: SetSelection(aStart, aEnd, 0) called once with        *)
(* arbitrary coordinates on a document of one or two lines.                *)
(***************************************************************************)
SelMaxGlyphs == 2

SelDocs == { << l >> : l \in LinesUpTo(SelMaxGlyphs) }
           \cup { << l, m >> : l, m \in LinesUpTo(SelMaxGlyphs) }

SelCoordinates(lines, ts) ==
    { Coordinates(l, c) :
        l \in -1 .. Len(lines),
        c \in -1 .. WidestLine(lines, ts, Len(lines) - 1) + 1 }

InitSetSelection ==
    /\ mLines \in SelDocs
    /\ mTabSize = 4
    /\ arg \in [ aStart : SelCoordinates(mLines, mTabSize),
                 aEnd : SelCoordinates(mLines, mTabSize) ]
    /\ res = << >>
    /\ pc = "input"
    /\ mState = OneCursor
    /\ mUndoBuffer = NoUndo
    /\ mUndoIndex = 0
    /\ mCursorPositionChanged = FALSE
    /\ mDraggingSelection = FALSE
    /\ mReadOnly = FALSE
    /\ mFind = NoFind
    /\ mColor = NoColor
    /\ fault = "none"

\* SetSelection(aStart, aEnd, 0)
SetSelectionCall ==
    /\ pc = "input"
    /\ Commit(SetSelection(Ed, arg.aStart, arg.aEnd, 0))
    /\ pc' = "returned"
    /\ UNCHANGED << arg, res >>

NextSetSelection == SetSelectionCall

SpecSetSelection == InitSetSelection /\ [][NextSetSelection]_vars

\* The coordinate lies inside the document: its line is one of the lines
\* and its column is within that line.
InsideDocument(lines, ts, co) ==
    /\ co.mLine \in 0 .. Len(lines) - 1
    /\ co.mColumn \in 0 .. GetLineMaxColumn(lines, ts, co.mLine)

\* C27: after SetSelection(start, end, cursor) with arbitrary coordinates,
\* both stored endpoints of that cursor lie inside the document: the line in
\* 0 .. lineCount - 1 and the column in 0 .. the maximal column of that line.
C27_SetSelectionInBounds ==
    pc = "returned" =>
        /\ InsideDocument(mLines, mTabSize, mState.mCursors[1].mInteractiveStart)
        /\ InsideDocument(mLines, mTabSize, mState.mCursors[1].mInteractiveEnd)


(***************************************************************************)
(* SpecLineChange: AddGlyphsToLine or RemoveGlyphsFromLine called once on  *)
(* a document with two cursors: the cursor that edits, collapsed at the    *)
(* edit point, and one other cursor, with or without a selection.          *)
(***************************************************************************)
LcMaxGlyphs == 2
LcMaxGlyphsBelow == 1

LcDocs == { << l >> : l \in LinesUpTo(LcMaxGlyphs) }
          \cup { << l, m >> : l \in LinesUpTo(LcMaxGlyphs),
                              m \in LinesUpTo(LcMaxGlyphsBelow) }

LcGlyphs == { << 97 >>, << TAB >>, << 97, 97 >> }

\* The two cursors in the order SortCursorsFromTopToBottom gives them, and
\* the index of the one that does not edit.
LcCursors(edit, other) ==
    IF CoordLE(edit.mInteractiveEnd, GetSelectionStart(other))
    THEN [cursors |-> << edit, other >>, other |-> 1]
    ELSE [cursors |-> << other, edit >>, other |-> 0]

\* The other cursor does not cover the edit point, nor is it a second
\* collapsed cursor at it.
LcApart(where, other) ==
    /\ other # Cursor(where, where)
    /\ \/ CoordLE(where, GetSelectionStart(other))
       \/ CoordLE(GetSelectionEnd(other), where)

\* The calls: glyphs added at the index of `from', or the glyphs between
\* `from' and `to' removed.
LcCalls(lines, ts) ==
    LET co == ValidCoordinates(lines, ts)
        at(c) == GetCharacterIndexR(lines, ts, c)
    IN { [op |-> "AddGlyphsToLine", aLine |-> from.mLine, where |-> from,
          aStartChar |-> at(from), aEndChar |-> at(from), glyphs |-> g] :
           from \in co, g \in LcGlyphs }
       \cup
       { [op |-> "RemoveGlyphsFromLine", aLine |-> c[1].mLine, where |-> c[1],
          aStartChar |-> at(c[1]), aEndChar |-> at(c[2]), glyphs |-> << >>] :
           c \in { d \in co \X co : /\ d[1].mLine = d[2].mLine
                                    /\ d[1].mColumn < d[2].mColumn } }

InitLineChange ==
    /\ mLines \in LcDocs
    /\ mTabSize = 4
    /\ \E call \in LcCalls(mLines, mTabSize) :
         \E s \in ValidCoordinates(mLines, mTabSize) :
           \E e \in ValidCoordinates(mLines, mTabSize) :
             /\ LcApart(call.where, Cursor(s, e))
             /\ LET set == LcCursors(Cursor(call.where, call.where), Cursor(s, e))
                IN /\ mState = [mCursors |-> set.cursors,
                                mCurrentCursor |-> 1, mLastAddedCursor |-> 1]
                   /\ arg = [call |-> call, other |-> set.other,
                             before |-> Cursor(s, e), lines |-> mLines]
    /\ res = << >>
    /\ pc = "input"
    /\ mUndoBuffer = NoUndo
    /\ mUndoIndex = 0
    /\ mCursorPositionChanged = FALSE
    /\ mDraggingSelection = FALSE
    /\ mReadOnly = FALSE
    /\ mFind = NoFind
    /\ mColor = NoColor
    /\ fault = "none"

\* AddGlyphsToLine(aLine, aTargetIndex, aSourceStart, aSourceEnd)
AddGlyphsCall ==
    /\ pc = "input"
    /\ arg.call.op = "AddGlyphsToLine"
    /\ Commit(AddGlyphsToLine(Ed, arg.call.aLine, arg.call.aStartChar,
                              arg.call.glyphs))
    /\ pc' = "changed"
    /\ UNCHANGED << arg, res >>

\* RemoveGlyphsFromLine(aLine, aStartChar, aEndChar)
RemoveGlyphsCall ==
    /\ pc = "input"
    /\ arg.call.op = "RemoveGlyphsFromLine"
    /\ Commit(RemoveGlyphsFromLine(Ed, arg.call.aLine, arg.call.aStartChar,
                                   arg.call.aEndChar))
    /\ pc' = "changed"
    /\ UNCHANGED << arg, res >>

NextLineChange == AddGlyphsCall \/ RemoveGlyphsCall

SpecLineChange == InitLineChange /\ [][NextLineChange]_vars

\* Where an end point of a cursor belongs after the call, so that it stays
\* at the glyph it was at: at or behind the point of an insertion, and at or
\* behind the end of a removal, it moves with its glyph; before the edit
\* point and on other lines it stays.
AttachedTo(co) ==
    LET call == arg.call
        i == GetCharacterIndexR(arg.lines, mTabSize, co)
        moved(n) == Coordinates(co.mLine,
                                GetCharacterColumn(mLines, mTabSize, co.mLine, i + n))
    IN IF co.mLine # call.aLine THEN co
       ELSE IF call.op = "AddGlyphsToLine"
       THEN (IF i >= call.aStartChar THEN moved(Len(call.glyphs)) ELSE co)
       ELSE (IF i >= call.aEndChar
             THEN moved(call.aStartChar - call.aEndChar) ELSE co)

\* The end point was inside the removed glyphs.
Removed(co) ==
    LET i == GetCharacterIndexR(arg.lines, mTabSize, co)
    IN /\ arg.call.op = "RemoveGlyphsFromLine"
       /\ co.mLine = arg.call.aLine
       /\ i > arg.call.aStartChar /\ i < arg.call.aEndChar

\* C30: when glyphs are inserted into or removed from a line, every other
\* cursor on that line at or after the edit point, with or without a
\* selection, has both its anchor and its head shifted with the glyph it was
\* at; cursors before the edit point and on other lines are unchanged.
C30_CursorsFollowTheirGlyph ==
    (pc = "changed" /\ fault = "none") =>
        LET after == mState.mCursors[arg.other + 1]
        IN /\ Removed(arg.before.mInteractiveStart)
                \/ after.mInteractiveStart = AttachedTo(arg.before.mInteractiveStart)
           /\ Removed(arg.before.mInteractiveEnd)
                \/ after.mInteractiveEnd = AttachedTo(arg.before.mInteractiveEnd)


(***************************************************************************)
(* SpecFindRegex: RefreshFindResults after the pattern of the panel was    *)
(* changed, with regex mode on or off.  The document was searched for "a"  *)
(* before, so results, highlights and an active index of that search are   *)
(* there when the call begins.  arg holds the document and the cursors     *)
(* before the call.                                                        *)
(***************************************************************************)
RegexMaxGlyphs == 3

RegexGlyphs == { << 97 >>, << LPAREN >>, << NL >> }

RegexTexts ==
    { Flatten(g) : g \in UNION { [1 .. k -> RegexGlyphs] : k \in 0 .. RegexMaxGlyphs } }

\* "a", "(", "a(", ")", "(a", "(a)", "()", ")("
RegexPatterns ==
    { << 97 >>, << LPAREN >>, << 97, LPAREN >>, << RPAREN >>, << LPAREN, 97 >>,
      << LPAREN, 97, RPAREN >>, << LPAREN, RPAREN >>, << RPAREN, LPAREN >> }

InitFindRegex ==
    /\ mColor = NoColor
    /\ \E aText \in RegexTexts : mLines = TextToLines(aText, << << >> >>)
    /\ mTabSize = 4
    /\ \E s \in ValidCoordinates(mLines, mTabSize) :
         \E e \in ValidCoordinates(mLines, mTabSize) :
             mState = [mCursors |-> << Cursor(s, e) >>,
                       mCurrentCursor |-> 0, mLastAddedCursor |-> 0]
    /\ \E pattern \in RegexPatterns, useRegex \in BOOLEAN :
         mFind = MarkFindResultsDirty(
                     EditorOn(mLines, mTabSize, mState,
                         [Searched(mLines, mTabSize, mState,
                                   [NoFind EXCEPT !.mFindBuffer = << 97 >>,
                                                  !.mShowFindPanel = TRUE])
                            EXCEPT !.mFindBuffer = pattern,
                                   !.mFindUseRegex = useRegex]),
                     FALSE).mFind
    /\ arg = [lines |-> mLines, state |-> mState,
              results |-> Len(mFind.mFindResults)]
    /\ res = << >>
    /\ pc = "input"
    /\ mUndoBuffer = NoUndo
    /\ mUndoIndex = 0
    /\ mCursorPositionChanged = FALSE
    /\ mDraggingSelection = FALSE
    /\ mReadOnly = FALSE
    /\ fault = "none"

\* RefreshFindResults(aPreserveSelection)
RegexRefreshCall ==
    /\ pc = "input"
    /\ \E aPreserveSelection \in BOOLEAN :
         Commit(RefreshFindResults(Ed, aPreserveSelection))
    /\ pc' = "searched"
    /\ UNCHANGED << arg, res >>

NextFindRegex == RegexRefreshCall

SpecFindRegex == InitFindRegex /\ [][NextFindRegex]_vars

\* C21: a refresh with regex mode on and a pattern that does not compile
\* raises nothing: the result list and the highlight cache are left empty,
\* the active result index is -1, the status message reports the invalid
\* pattern with a positive countdown, and document and cursors are unchanged.
C21_InvalidRegexLeavesNoResults ==
    (pc = "searched" /\ mFind.mFindUseRegex /\ ~RegexCompiles(mFind.mFindBuffer)) =>
        /\ fault = "none"
        /\ mFind.mFindResults = << >>
        /\ mFind.mFindHighlightsCache = {}
        /\ mFind.mFindResultIndex = -1
        /\ mFind.mFindStatusMessage = "Invalid regex"
        /\ mFind.mFindStatusTimer > 0
        /\ mLines = arg.lines
        /\ mState = arg.state

\* The pattern "a(" was refreshed in regex mode on a document in which the
\* search before had found results.
C21_Witness ==
    /\ pc = "searched"
    /\ mFind.mFindUseRegex
    /\ mFind.mFindBuffer = << 97, LPAREN >>
    /\ arg.results > 0
    /\ mFind.mFindStatusMessage = "Invalid regex"


(***************************************************************************)
(* SpecFindNext: FindNext called up to FnMaxCalls times, forwards or       *)
(* backwards, with wrap-around on or off.  The pattern is "a"; the results *)
(* are those of the last search, or the pattern has just been entered and  *)
(* the results are dirty.  arg holds, for the call that has returned, its  *)
(* direction, the cursors before it, and the active index and the number   *)
(* of results once EnsureFindResultsUpToDate had run.                      *)
(***************************************************************************)
FnMaxCalls == 3
FnMaxGlyphs == 3

FnGlyphs == { << 97 >>, << SPACE >>, << NL >> }

FnTexts ==
    { Flatten(g) : g \in UNION { [1 .. k -> FnGlyphs] : k \in 0 .. FnMaxGlyphs } }

FnCall(aBackwards, e) ==
    [aBackwards |-> aBackwards, state |-> mState,
     index |-> e.mFind.mFindResultIndex, count |-> Len(e.mFind.mFindResults)]

InitFindNext ==
    /\ mColor = NoColor
    /\ \E aText \in FnTexts : mLines = TextToLines(aText, << << >> >>)
    /\ mTabSize = 4
    /\ \E s \in ValidCoordinates(mLines, mTabSize) :
         mState = [mCursors |-> << Cursor(s, s) >>,
                   mCurrentCursor |-> 0, mLastAddedCursor |-> 0]
    /\ \E wrap \in BOOLEAN, searched \in BOOLEAN :
         LET find == [NoFind EXCEPT !.mFindBuffer = << 97 >>,
                                    !.mShowFindPanel = TRUE,
                                    !.mFindWrapAround = wrap]
         IN mFind = IF searched THEN Searched(mLines, mTabSize, mState, find)
                    ELSE find
    /\ arg = FnCall(FALSE, EditorOn(mLines, mTabSize, mState, mFind))
    /\ res = << >>
    /\ pc = 0
    /\ mUndoBuffer = NoUndo
    /\ mUndoIndex = 0
    /\ mCursorPositionChanged = FALSE
    /\ mDraggingSelection = FALSE
    /\ mReadOnly = FALSE
    /\ fault = "none"

\* FindNext(aBackwards)
FindNextCall ==
    /\ pc < FnMaxCalls
    /\ \E aBackwards \in BOOLEAN :
         /\ Commit(FindNext(Ed, aBackwards))
         /\ arg' = FnCall(aBackwards, EnsureFindResultsUpToDate(Ed))
    /\ pc' = pc + 1
    /\ res' = res

NextFindNext == FindNextCall

SpecFindNext == InitFindNext /\ [][NextFindNext]_vars

\* The call began at the result the direction cannot go beyond.
AtBoundary ==
    IF arg.aBackwards THEN arg.index = 0 ELSE arg.index = arg.count - 1

\* C22: FindNext with wrap-around off, when the active result is the last
\* one (forwards) or the first one (backwards), does not move: index and
\* cursors are unchanged and a boundary message with a positive countdown is
\* set.  With wrap-around on the index moves to (index +/- 1) modulo count.
\* In both cases the index stays in 0 .. count - 1 whenever count > 0.
C22_FindNextAtBoundary ==
    (pc > 0 /\ arg.count > 0) =>
        /\ fault = "none"
        /\ Len(mFind.mFindResults) = arg.count
        /\ mFind.mFindResultIndex \in 0 .. arg.count - 1
        /\ (~mFind.mFindWrapAround /\ AtBoundary) =>
              /\ mFind.mFindResultIndex = arg.index
              /\ mState = arg.state
              /\ mFind.mFindStatusMessage =
                     (IF arg.aBackwards THEN "Reached start" ELSE "Reached end")
              /\ mFind.mFindStatusTimer > 0
        /\ mFind.mFindWrapAround =>
              mFind.mFindResultIndex =
                  (IF arg.aBackwards THEN arg.index - 1 ELSE arg.index + 1)
                      % arg.count

\* A call forwards at the last of two results, wrap-around off, after a
\* call that had moved there.
C22_Witness ==
    /\ pc > 1
    /\ ~mFind.mFindWrapAround
    /\ ~arg.aBackwards
    /\ arg.count = 2 /\ arg.index = 1
    /\ mFind.mFindStatusMessage = "Reached end"

\* The index has wrapped from the last result to the first.
C22_WitnessWrap ==
    /\ pc > 1
    /\ mFind.mFindWrapAround
    /\ ~arg.aBackwards
    /\ arg.count = 2 /\ arg.index = 1
    /\ mFind.mFindResultIndex = 0


(***************************************************************************)
(* SpecDefer: frames of Render on a document that has been searched for    *)
(* the pattern "a", with the find panel shown or closed.  In a frame a     *)
(* character is typed, Backspace is pressed, or nothing is entered.  arg   *)
(* holds, of the last frame, io.DeltaTime, whether its command has changed *)
(* the text, mFindRefreshPending and mFindRefreshTimer before it, and      *)
(* mFindRefreshPending as its command has left it.                         *)
(***************************************************************************)
DeferMaxCalls == 4

DeferFrame(op, e, DeltaTime) ==
    /\ pc < DeferMaxCalls
    /\ fault # "oob"
    /\ \E handled \in { e } :
         /\ \E ended \in { RenderEnd(handled, DeltaTime) } : Commit(ended)
         /\ arg' = [op |-> op, DeltaTime |-> DeltaTime,
                    edited |-> handled.mLines # mLines,
                    pending |-> mFind.mFindRefreshPending,
                    timer |-> mFind.mFindRefreshTimer,
                    armed |-> handled.mFind.mFindRefreshPending]
    /\ pc' = pc + 1
    /\ res' = res

InitDefer ==
    /\ mColor = NoColor
    /\ mLines = << << 97 >> >>
    /\ mState = OneCursor
    /\ mTabSize = 4
    /\ \E shown \in BOOLEAN :
         mFind = Searched(mLines, mTabSize, mState,
                          [NoFind EXCEPT !.mFindBuffer = << 97 >>,
                                         !.mShowFindPanel = shown])
    /\ mReadOnly = FALSE
    /\ mUndoBuffer = NoUndo
    /\ mUndoIndex = 0
    /\ mCursorPositionChanged = FALSE
    /\ mDraggingSelection = FALSE
    /\ fault = "none"
    /\ pc = 0
    /\ arg = [op |-> "Render", DeltaTime |-> 0, edited |-> FALSE,
              pending |-> FALSE, timer |-> 0, armed |-> FALSE]
    /\ res = << >>

\* a frame with a character in io.InputQueueCharacters
DeferType ==
    \E aChar \in { 97, 98 }, DeltaTime \in DeltaTimes :
        DeferFrame("EnterCharacter",
                   EnterCharacter(RenderBegin(Ed), aChar, FALSE), DeltaTime)

\* a frame with Backspace pressed
DeferBackspace ==
    \E DeltaTime \in DeltaTimes :
        DeferFrame("Backspace", Backspace(RenderBegin(Ed)), DeltaTime)

\* a frame without input
DeferIdle ==
    \E DeltaTime \in DeltaTimes :
        DeferFrame("Render", RenderBegin(Ed), DeltaTime)

NextDefer == DeferType \/ DeferBackspace \/ DeferIdle

SpecDefer == InitDefer /\ [][NextDefer]_vars

\* A refresh was pending in the last frame: from the frame before, or
\* deferred by the frame's command.
PendingInFrame == arg.pending \/ arg.armed

\* What the countdown of the last frame began at: the full interval when
\* the frame's command has edited the text, else what the frame before had
\* left.
CountdownFrom ==
    IF arg.edited THEN FIND_REFRESH_DEFER_SECONDS ELSE arg.timer

\* C23: while a deferred find refresh is pending, every further edit
\* restarts the countdown at the full defer interval, and the find results
\* are not computed again until a countdown has run down to zero without
\* being re-armed, whether or not the find panel is shown.
C23_RefreshWaitsForCountdown ==
    (pc > 0 /\ fault = "none" /\ PendingInFrame
          /\ CountdownFrom > arg.DeltaTime) =>
        /\ ~mFind.refreshed
        /\ mFind.mFindRefreshPending
        /\ mFind.mFindRefreshTimer = CountdownFrom - arg.DeltaTime

(***************************************************************************)
(* The colorizer's dirty range after a command.  A document is loaded into *)
(* an editor with a language definition; each frame handles one editing    *)
(* command, Undo or Redo, and colorizes.  arg holds the command, the       *)
(* document and the colorizer's members before it, the colorizer's members *)
(* when the command has returned (ColorizeInternal, later in the frame,    *)
(* consumes the range), and the operations Undo or Redo has replayed; res  *)
(* holds the same for the last Undo.                                       *)
(***************************************************************************)
RecolorMaxCalls == 3

RecolorTexts ==
    { << 97, 98 >>, << 97, NL, 98 >>, << 97, NL, 98, NL, 99 >>,
      << TAB, 97, NL, TAB, 98 >> }

\* SetLanguageDefinition(aValue) and SetText(aText) on a new editor
Loaded(aValue, aText) ==
    SetText(SetLanguageDefinition(
                EditorOn(<< << >> >>, 4, OneCursor, NoFind), aValue),
            aText)

NothingReplayed == [ops |-> << >>, color |-> NoColor, was |-> NoColor]

InitRecolor ==
    /\ \E aText \in RecolorTexts :
         /\ mLines = Loaded("Cpp", aText).mLines
         /\ mColor = Loaded("Cpp", aText).mColor
    /\ mTabSize = 4
    /\ \E s \in ValidCoordinates(mLines, mTabSize) :
         \E e \in ValidCoordinates(mLines, mTabSize) :
             mState = [mCursors |-> << Cursor(s, e) >>,
                       mCurrentCursor |-> 0, mLastAddedCursor |-> 0]
    /\ mUndoBuffer = NoUndo
    /\ mUndoIndex = 0
    /\ mCursorPositionChanged = FALSE
    /\ mDraggingSelection = FALSE
    /\ mReadOnly = FALSE
    /\ mFind = NoFind
    /\ fault = "none"
    /\ pc = 0
    /\ arg = [op |-> "SetText", lines |-> mLines, was |-> mColor,
              color |-> mColor, ops |-> << >>]
    /\ res = NothingReplayed

\* One call of Render in which the keyboard handler runs a command: e is
\* the editor when the command has returned, ops the operations it has
\* replayed.
RecolorFrame(op, e, ops) ==
    \E DeltaTime \in DeltaTimes :
        /\ pc < RecolorMaxCalls
        /\ fault # "oob"
        /\ \E handled \in { e } :
             /\ \E ended \in { RenderEnd(handled, DeltaTime) } : Commit(ended)
             /\ arg' = [op |-> op, lines |-> mLines, was |-> mColor,
                        color |-> handled.mColor, ops |-> ops]
             /\ res' = IF op = "Undo"
                       THEN [ops |-> ops, color |-> handled.mColor,
                             was |-> mColor]
                       ELSE res
        /\ pc' = pc + 1

RecolorCharacter ==
    \E aChar \in { 97, NL } :
        RecolorFrame("EnterCharacter",
                     EnterCharacter(RenderBegin(Ed), aChar, FALSE), << >>)

RecolorTab ==
    \E aShift \in BOOLEAN :
        RecolorFrame("Tab", EnterCharacter(RenderBegin(Ed), TAB, aShift), << >>)

RecolorBackspace == RecolorFrame("Backspace", Backspace(RenderBegin(Ed)), << >>)

RecolorDelete == RecolorFrame("Delete", Delete(RenderBegin(Ed)), << >>)

RecolorCut == RecolorFrame("Cut", Cut(RenderBegin(Ed)), << >>)

RecolorPaste ==
    \E clipText \in Clips :
        RecolorFrame("Paste", Paste(RenderBegin(Ed), clipText), << >>)

RecolorMoveLines ==
    \/ RecolorFrame("MoveUpCurrentLines", MoveUpCurrentLines(RenderBegin(Ed)),
                    << >>)
    \/ RecolorFrame("MoveDownCurrentLines",
                    MoveDownCurrentLines(RenderBegin(Ed)), << >>)

RecolorRemoveLines ==
    \E ub \in {"trap", "drop-last"} :
        RecolorFrame("RemoveCurrentLines",
                     RemoveCurrentLines([RenderBegin(Ed) EXCEPT !.ub = ub]),
                     << >>)

RecolorUndo ==
    /\ CanUndo(Ed)
    /\ RecolorFrame("Undo", UndoSteps(RenderBegin(Ed), 1),
                    mUndoBuffer[mUndoIndex].mOperations)

RecolorRedo ==
    /\ CanRedo(Ed)
    /\ RecolorFrame("Redo", RedoSteps(RenderBegin(Ed), 1),
                    mUndoBuffer[mUndoIndex + 1].mOperations)

NextRecolor ==
    \/ RecolorCharacter
    \/ RecolorTab
    \/ RecolorBackspace
    \/ RecolorDelete
    \/ RecolorCut
    \/ RecolorPaste
    \/ RecolorMoveLines
    \/ RecolorRemoveLines
    \/ RecolorUndo
    \/ RecolorRedo

SpecRecolor == InitRecolor /\ [][NextRecolor]_vars

\* The dirty range holds line l.
InDirtyRange(color, l) ==
    color.mColorRangeMin <= l /\ l < color.mColorRangeMax

\* The dirty range is empty and no scan of the comments is due.
Colorized(color) ==
    ~color.mCheckComments /\ color.mColorRangeMin >= color.mColorRangeMax

\* From line first to line last of a document of n lines, and the line
\* before and the line after where the document has them.
WithNeighbours(first, last, n) == Max(0, first - 1) .. Min(n - 1, last + 1)

\* The lines an operation of an UndoRecord spans.
ReplayedLines(operation, n) ==
    WithNeighbours(operation.mStart.mLine, operation.mEnd.mLine, n)

ReplayCovered(color, ops, n) ==
    \A i \in 1 .. Len(ops) :
        ops[i].mText # << >> =>
            \A l \in ReplayedLines(ops[i], n) : InDirtyRange(color, l)

\* C29: when Undo or Redo replays an operation that spans the lines s..e,
\* the dirty range afterwards holds every line from max(0, s - 1) to
\* min(last line, e + 1), and Redo of a record leaves the range that Undo of
\* the same record has left.
C29_ReplayRecolors ==
    (pc > 0 /\ fault = "none" /\ arg.op \in {"Undo", "Redo"}
          /\ Colorized(arg.was)) =>
        /\ ReplayCovered(arg.color, arg.ops, Len(mLines))
        /\ (arg.op = "Redo" /\ res.ops = arg.ops /\ Colorized(res.was)) =>
               /\ arg.color.mColorRangeMin = res.color.mColorRangeMin
               /\ arg.color.mColorRangeMax = res.color.mColorRangeMax

\* The number of leading lines two documents share, from line i on.
RECURSIVE CommonPrefix(_, _, _)
CommonPrefix(before, after, i) ==
    IF i < Len(before) /\ i < Len(after) /\ before[i + 1] = after[i + 1]
    THEN CommonPrefix(before, after, i + 1) ELSE i

\* The number of trailing lines they share behind the first `kept' lines.
RECURSIVE CommonSuffix(_, _, _, _)
CommonSuffix(before, after, kept, i) ==
    IF /\ i < Len(before) - kept /\ i < Len(after) - kept
       /\ before[Len(before) - i] = after[Len(after) - i]
    THEN CommonSuffix(before, after, kept, i + 1) ELSE i

\* The lines of `after' whose content is not that of `before': those
\* between the lines the documents share at their start and at their end.
ChangedLines(before, after) ==
    LET kept == CommonPrefix(before, after, 0)
    IN kept .. Len(after) - CommonSuffix(before, after, kept, 0) - 1

\* The changed lines, and the line before and the line after them.
LinesToRecolor(before, after) ==
    LET changed == ChangedLines(before, after)
        kept == CommonPrefix(before, after, 0)
    IN IF changed = {} THEN WithNeighbours(kept, kept - 1, Len(after))
       ELSE WithNeighbours(kept, kept + Cardinality(changed) - 1, Len(after))

\* C28: after every command that has changed the document, the scan of the
\* comments is due and the dirty range holds every line whose content has
\* changed, the line before and the line after.
C28_EditMarksColorizerDirty ==
    (pc > 0 /\ fault = "none" /\ arg.lines # mLines) =>
        /\ arg.color.mCheckComments
        /\ \A l \in LinesToRecolor(arg.lines, mLines) :
               InDirtyRange(arg.color, l)

(***************************************************************************)
(* The scan of comments and strings at the head of ColorizeInternal.  The  *)
(* scan writes the flags mMultiLineComment, mComment and mPreprocessor of  *)
(* the glyphs; CommentScan gives the first as one BOOLEAN for each glyph   *)
(* of each line, all FALSE in a document that SetText has built.  The      *)
(* locals withinPreproc and firstChar decide mPreprocessor only and are    *)
(* left out, as is mComment.                                               *)
(***************************************************************************)
QUOTE == 34
STAR == 42
SLASH == 47
BACKSLASH == 92

\* LanguageDefinition::mCommentStart, mCommentEnd and mSingleLineComment of
\* the definitions of C-like languages
mCommentStart(language) == << SLASH, STAR >>
mCommentEnd(language) == << STAR, SLASH >>
mSingleLineComment(language) == << SLASH, SLASH >>

\* ColorizerEquals(str.begin(), str.end(), line.begin() + from,
\* line.begin() + from + str.size(), pred), the range being inside the line
ColorizerEquals(str, line, from) ==
    \A k \in 1 .. Len(str) : str[k] = line[from + k]

Untagged(lines) == [l \in 1 .. Len(lines) |-> [i \in 1 .. Len(lines[l]) |-> FALSE]]

\* line[index].mMultiLineComment = value
TagGlyph(tags, line, index, value) ==
    [tags EXCEPT ![line + 1][index + 1] = value]

\* The same behind `if (currentIndex < (int)line.size())'.
TagGlyphInLine(tags, line, index, value) ==
    IF index < Len(tags[line + 1]) THEN TagGlyph(tags, line, index, value)
    ELSE tags

\* bool inComment = (commentStartLine < currentLine || (commentStartLine ==
\* currentLine && commentStartIndex <= currentIndex));
InComment(commentStartLine, commentStartIndex, currentLine, currentIndex) ==
    \/ commentStartLine < currentLine
    \/ commentStartLine = currentLine /\ commentStartIndex <= currentIndex

\* The end of the loop's body: currentIndex += UTF8CharLength(c) and the
\* step to the next line.
ScanAdvance(s, line, c, index) ==
    LET next == index + UTF8CharLength(c)
    IN IF next >= Len(line)
       THEN [s EXCEPT !.currentIndex = 0, !.currentLine = @ + 1]
       ELSE [s EXCEPT !.currentIndex = next]

\* One turn of the loop on a glyph inside a string.
ScanInString(s, line, c, inComment) ==
    LET l == s.currentLine
        i == s.currentIndex
        s1 == [s EXCEPT !.tags = TagGlyph(@, l, i, inComment)]
    IN IF c = QUOTE
       THEN IF i + 1 < Len(line) /\ line[i + 2] = QUOTE
            THEN ScanAdvance(
                     [s1 EXCEPT !.tags = TagGlyphInLine(@, l, i + 1, inComment)],
                     line, c, i + 1)
            ELSE ScanAdvance([s1 EXCEPT !.withinString = FALSE], line, c, i)
       ELSE IF c = BACKSLASH
       THEN ScanAdvance(
                [s1 EXCEPT !.tags = TagGlyphInLine(@, l, i + 1, inComment)],
                line, c, i + 1)
       ELSE ScanAdvance(s1, line, c, i)

\* One turn of the loop on a glyph outside a string.
ScanOutsideString(s, language, endLine, line, c, inComment) ==
    LET l == s.currentLine
        i == s.currentIndex
        startStr == mCommentStart(language)
        singleStartStr == mSingleLineComment(language)
        endStr == mCommentEnd(language)
        starts == /\ ~s.withinSingleLineComment
                  /\ i + Len(startStr) <= Len(line)
                  /\ ColorizerEquals(startStr, line, i)
        single == /\ ~starts
                  /\ Len(singleStartStr) > 0
                  /\ i + Len(singleStartStr) <= Len(line)
                  /\ ColorizerEquals(singleStartStr, line, i)
        s1 == [s EXCEPT
                 !.commentStartLine = IF starts THEN l ELSE @,
                 !.commentStartIndex = IF starts THEN i ELSE @,
                 !.withinSingleLineComment = IF single THEN TRUE ELSE @]
        ends == /\ i + 1 >= Len(endStr)
                /\ ColorizerEquals(endStr, line, i + 1 - Len(endStr))
        s2 == [s1 EXCEPT
                 !.tags = TagGlyph(@, l, i,
                              InComment(s1.commentStartLine,
                                        s1.commentStartIndex, l, i)),
                 !.commentStartLine = IF ends THEN endLine ELSE @,
                 !.commentStartIndex = IF ends THEN 0 ELSE @]
    IN IF c = QUOTE
       THEN ScanAdvance([s EXCEPT !.withinString = TRUE,
                                  !.tags = TagGlyph(@, l, i, inComment)],
                        line, c, i)
       ELSE ScanAdvance(s2, line, c, i)

\* `while (currentLine < endLine || currentIndex < endIndex)'
RECURSIVE CommentScanLoop(_, _, _)
CommentScanLoop(lines, language, s) ==
    IF s.currentLine >= Len(lines) THEN s.tags
    ELSE LET line == lines[s.currentLine + 1]
             s0 == [s EXCEPT
                      !.withinSingleLineComment =
                          IF s.currentIndex = 0 /\ ~s.concatenate THEN FALSE ELSE @,
                      !.concatenate = FALSE]
         IN IF line = << >>
            THEN CommentScanLoop(lines, language,
                     [s0 EXCEPT !.currentIndex = 0, !.currentLine = @ + 1])
            ELSE LET i == s.currentIndex
                     c == line[i + 1]
                     s1 == [s0 EXCEPT !.concatenate =
                               i = Len(line) - 1 /\ line[Len(line)] = BACKSLASH]
                     inComment == InComment(s.commentStartLine,
                                            s.commentStartIndex,
                                            s.currentLine, i)
                 IN CommentScanLoop(lines, language,
                        IF s.withinString
                        THEN ScanInString(s1, line, c, inComment)
                        ELSE ScanOutsideString(s1, language, Len(lines), line,
                                               c, inComment))

\* The values of mMultiLineComment when the scan has run on a document
\* whose glyphs SetText has built.
CommentScan(lines, language) ==
    CommentScanLoop(lines, language,
        [ currentLine |-> 0, currentIndex |-> 0,
          commentStartLine |-> Len(lines), commentStartIndex |-> 0,
          withinString |-> FALSE, withinSingleLineComment |-> FALSE,
          concatenate |-> FALSE, tags |-> Untagged(lines) ])

(***************************************************************************)
(* ColorizeInternal on a document that was loaded into an editor with a    *)
(* language definition: arg is the text, res the values of                 *)
(* mMultiLineComment when the call has returned.                           *)
(***************************************************************************)
ScanMaxGlyphs == 6

ScanGlyphs == { SLASH, STAR, QUOTE, 97, NL }

\* "a /* b\nc */ d"
ScanExample ==
    << 97, SPACE, SLASH, STAR, SPACE, 98, NL, 99, SPACE, STAR, SLASH, SPACE, 100 >>

ScanTexts ==
    UNION { [1 .. n -> ScanGlyphs] : n \in 1 .. ScanMaxGlyphs } \cup { ScanExample }

InitScan ==
    /\ arg \in ScanTexts
    /\ mLines = Loaded("Cpp", arg).mLines
    /\ mColor = Loaded("Cpp", arg).mColor
    /\ mTabSize = 4
    /\ mState = OneCursor
    /\ mUndoBuffer = NoUndo
    /\ mUndoIndex = 0
    /\ mCursorPositionChanged = FALSE
    /\ mDraggingSelection = FALSE
    /\ mReadOnly = FALSE
    /\ mFind = NoFind
    /\ fault = "none"
    /\ pc = "loaded"
    /\ res = Untagged(mLines)

\* ColorizeInternal()
ColorizeInternalCall ==
    /\ pc = "loaded"
    /\ Commit(ColorizeInternal(Ed))
    /\ res' = IF mColor.mCheckComments
              THEN CommentScan(mLines, mColor.mLanguageDefinition) ELSE res
    /\ pc' = "scanned"
    /\ UNCHANGED arg

NextScan == ColorizeInternalCall

SpecScan == InitScan /\ [][NextScan]_vars

\* The block-comment spans of a document, read glyph by glyph.  Outside
\* comments and strings a double quote opens a string, the start delimiter
\* a block comment and the single-line delimiter a comment that ends with
\* its line; a string ends at its closing quote; a block comment holds its
\* delimiters and everything between them, and ends with the first end
\* delimiter that is complete behind its start.
RECURSIVE SpanTags(_, _, _, _, _, _)
SpanTags(lines, language, l, i, mode, tags) ==
    IF l >= Len(lines) THEN tags
    ELSE IF i >= Len(lines[l + 1])
    THEN SpanTags(lines, language, l + 1, 0,
                  IF mode = "line" THEN "code" ELSE mode, tags)
    ELSE LET line == lines[l + 1]
             c == line[i + 1]
             at(str) == i + Len(str) <= Len(line) /\ ColorizerEquals(str, line, i)
             closes == i >= 1 /\ line[i] = STAR /\ c = SLASH
         IN IF mode = "block"
            THEN SpanTags(lines, language, l, i + 1,
                          IF closes THEN "code" ELSE "block",
                          TagGlyph(tags, l, i, TRUE))
            ELSE IF mode = "string"
            THEN IF c = QUOTE /\ i + 1 < Len(line) /\ line[i + 2] = QUOTE
                 THEN SpanTags(lines, language, l, i + 2, "string", tags)
                 ELSE SpanTags(lines, language, l, i + 1,
                               IF c = QUOTE THEN "code" ELSE "string", tags)
            ELSE IF mode = "line"
            THEN SpanTags(lines, language, l, i + 1, "line", tags)
            ELSE IF c = QUOTE
            THEN SpanTags(lines, language, l, i + 1, "string", tags)
            ELSE IF at(mCommentStart(language))
            THEN SpanTags(lines, language, l, i + 1, "block",
                          TagGlyph(tags, l, i, TRUE))
            ELSE SpanTags(lines, language, l, i + 1,
                          IF at(mSingleLineComment(language)) THEN "line"
                          ELSE "code",
                          tags)

BlockCommentSpans(lines, language) ==
    SpanTags(lines, language, 0, 0, "code", Untagged(lines))

\* C25: after the scan a glyph is tagged multi-line-comment exactly when it
\* lies in a block-comment span, whatever the comment holds; in
\* "a /* b\nc */ d" the glyphs b and c are tagged and a and d are not.
C25_BlockCommentSpansTagged ==
    pc = "scanned" =>
        /\ res = BlockCommentSpans(mLines, "Cpp")
        /\ arg = ScanExample =>
               /\ res[1][6] /\ res[2][1]
               /\ ~res[1][1] /\ ~res[2][6]

(***************************************************************************)
(* The dirty range from frame to frame.  A document of empty lines is      *)
(* loaded into an editor with a language definition; the host calls Render *)
(* again and again without input, of which the call of ColorizeInternal   *)
(* is followed here, and now and then a frame pastes lines or the host     *)
(* sets another language definition, each of which asks Colorize for a     *)
(* range.  pc counts these requests.  arg holds the colorizer's members as *)
(* they were when ColorizeInternal was last called.                        *)
(***************************************************************************)
ColorizeMaxRequests == 2

\* The line counts of the documents, under either kind of definition, and
\* that of the document under a definition with a tokenizer only.
ColorizeSizes == { 1, 12, 25 }
ColorizeSizeTokenized == 10001

EmptyLines(n) == [l \in 1 .. n |-> << >>]

\* SetLanguageDefinition(aValue) and SetTextLines(aLines) on a new editor
LoadedLines(aValue, aLines) ==
    SetTextLines(SetLanguageDefinition(
                     EditorOn(<< << >> >>, 4, OneCursor, NoFind), aValue),
                 aLines)

\* A clipboard of 12 line feeds
ClipOfLines == [k \in 1 .. 12 |-> NL]

InitColorize ==
    /\ \E aValue \in { "Cpp", "Glsl" } :
         \E n \in ColorizeSizes \cup { ColorizeSizeTokenized } :
             /\ n = ColorizeSizeTokenized => aValue = "Cpp"
             /\ mLines = LoadedLines(aValue, EmptyLines(n)).mLines
             /\ mColor = LoadedLines(aValue, EmptyLines(n)).mColor
    /\ mTabSize = 4
    /\ \E l \in { 0, 5 } :
         /\ l < Len(mLines)
         /\ mState = [mCursors |-> << Cursor(Coordinates(l, 0), Coordinates(l, 0)) >>,
                      mCurrentCursor |-> 0, mLastAddedCursor |-> 0]
    /\ mUndoBuffer = NoUndo
    /\ mUndoIndex = 0
    /\ mCursorPositionChanged = FALSE
    /\ mDraggingSelection = FALSE
    /\ mReadOnly = FALSE
    /\ mFind = NoFind
    /\ fault = "none"
    /\ pc = 0
    /\ arg = [op |-> "SetTextLines", color |-> mColor]
    /\ res = 0

\* One call of Render: e is the editor when the keyboard handler has
\* returned; the frame goes on with ColorizeInternal.
ColorizeFrame(op, e, requests) ==
    \E DeltaTime \in DeltaTimes :
        /\ fault # "oob"
        /\ \E handled \in { e } :
             /\ \E ended \in { RenderEnd(handled, DeltaTime) } : Commit(ended)
             /\ arg' = [op |-> op, color |-> handled.mColor]
        /\ pc' = pc + requests
        /\ res' = res

\* ColorizeInternal(), as a frame without input calls it
ColorizeIdle ==
    /\ fault # "oob"
    /\ Commit(ColorizeInternal(Ed))
    /\ arg' = [op |-> "Render", color |-> Ed.mColor]
    /\ UNCHANGED << pc, res >>

\* a frame in which Ctrl+V pastes 12 lines
ColorizePaste ==
    /\ pc < ColorizeMaxRequests
    /\ Len(mLines) < ColorizeSizeTokenized
    /\ ColorizeFrame("Paste", Paste(RenderBegin(Ed), ClipOfLines), 1)

\* SetLanguageDefinition(aValue), called by the host
ColorizeSetLanguage ==
    \E aValue \in { "Cpp", "Glsl" } :
        /\ pc < ColorizeMaxRequests
        /\ fault # "oob"
        /\ Len(mLines) < ColorizeSizeTokenized
        /\ Commit(SetLanguageDefinition(Ed, aValue))
        /\ pc' = pc + 1
        /\ arg' = [op |-> "SetLanguageDefinition",
                   color |-> SetLanguageDefinition(Ed, aValue).mColor]
        /\ res' = res

NextColorize == ColorizeIdle \/ ColorizePaste \/ ColorizeSetLanguage

\* The host calls Render, and Render ColorizeInternal, in every frame.
SpecColorize ==
    InitColorize /\ [][NextColorize]_vars /\ WF_vars(ColorizeIdle)

DirtyRangeEmpty(color) == color.mColorRangeMin >= color.mColorRangeMax

\* `const int increment = (mTokenize == nullptr) ? 10 : 10000' as the claim
\* has it: 10 lines with regex rules, 10000 with a tokenizer.
SliceLimit(color) ==
    IF HasTokenize(color.mLanguageDefinition) THEN 10000 ELSE 10

\* What a call of ColorizeInternal has made of the dirty range `was': it
\* has classified the lowest lines of the range, as many as the limit
\* allows, and the range is what is left of it, or nothing.
SliceConsumed(was, now) ==
    LET n == Cardinality(now.classified)
        rest == was.mColorRangeMax - was.mColorRangeMin
    IN IF DirtyRangeEmpty(was)
       THEN /\ now.classified = {}
            /\ now.mColorRangeMin = was.mColorRangeMin
            /\ now.mColorRangeMax = was.mColorRangeMax
       ELSE /\ n <= SliceLimit(was)
            /\ n = Min(SliceLimit(was), rest)
            /\ now.classified = was.mColorRangeMin .. was.mColorRangeMin + n - 1
            /\ IF n = rest THEN DirtyRangeEmpty(now)
               ELSE /\ now.mColorRangeMin = was.mColorRangeMin + n
                    /\ now.mColorRangeMax = was.mColorRangeMax

JoinMaxGlyphs == 2
JoinMaxGlyphsAround == 1

JoinDocs ==
    { << l, m >> : l \in LinesUpTo(JoinMaxGlyphsAround),
                   m \in LinesUpTo(JoinMaxGlyphs) }
    \cup { << l, m, n >> : l \in LinesUpTo(JoinMaxGlyphsAround),
                           m \in LinesUpTo(JoinMaxGlyphs),
                           n \in LinesUpTo(JoinMaxGlyphsAround) }

InitJoin ==
    /\ mLines \in JoinDocs
    /\ mTabSize = 4
    /\ \E aStart \in ValidCoordinates(mLines, mTabSize) :
         \E aEnd \in ValidCoordinates(mLines, mTabSize) :
           \E s \in ValidCoordinates(mLines, mTabSize) :
             \E e \in ValidCoordinates(mLines, mTabSize) :
               \E own \in BOOLEAN :
                 /\ aStart.mLine < aEnd.mLine
                 /\ CoordLE(aEnd, s) /\ CoordLE(aEnd, e)
                 /\ mState = IF own
                             THEN [mCursors |-> << Cursor(aStart, aEnd), Cursor(s, e) >>,
                                   mCurrentCursor |-> 1, mLastAddedCursor |-> 1]
                             ELSE [mCursors |-> << Cursor(s, e) >>,
                                   mCurrentCursor |-> 0, mLastAddedCursor |-> 0]
                 /\ arg = [aStart |-> aStart, aEnd |-> aEnd, lines |-> mLines,
                           before |-> Cursor(s, e),
                           other |-> IF own THEN 1 ELSE 0]
    /\ res = << >>
    /\ pc = "input"
    /\ mUndoBuffer = NoUndo
    /\ mUndoIndex = 0
    /\ mCursorPositionChanged = FALSE
    /\ mDraggingSelection = FALSE
    /\ mReadOnly = FALSE
    /\ mFind = NoFind
    /\ mColor = NoColor
    /\ fault = "none"

\* DeleteRange(aStart, aEnd), aStart.mLine < aEnd.mLine
JoinCall ==
    /\ pc = "input"
    /\ Commit(DeleteRange(Ed, arg.aStart, arg.aEnd))
    /\ pc' = "returned"
    /\ UNCHANGED << arg, res >>

NextJoin == JoinCall

SpecJoin == InitJoin /\ [][NextJoin]_vars

\* Where an end point at or behind aEnd belongs after the call: on a line
\* below aEnd's, the same column end.line - start.line lines higher; on
\* aEnd's line, on aStart's line at its glyph index shifted by (glyph index
\* of aStart) - (glyph index of aEnd).
Rebased(co) ==
    LET at(c) == GetCharacterIndexR(arg.lines, mTabSize, c)
    IN IF co.mLine > arg.aEnd.mLine
       THEN Coordinates(co.mLine - (arg.aEnd.mLine - arg.aStart.mLine),
                        co.mColumn)
       ELSE Coordinates(arg.aStart.mLine,
                GetCharacterColumn(mLines, mTabSize, arg.aStart.mLine,
                                   at(co) + at(arg.aStart) - at(arg.aEnd)))

\* C31: after a cross-line DeleteRange(start, end), every other cursor that
\* was at or after end designates the same glyph as before: on lines below
\* end.line its anchor and head lines are reduced by end.line - start.line,
\* and on end.line, with or without a selection, it is moved to start.line
\* with its glyph offsets shifted by index(start) - index(end).
C31_CursorsFollowJoinedLine ==
    pc = "returned" =>
        /\ fault = "none"
        /\ mState.mCursors[arg.other + 1]
             = Cursor(Rebased(arg.before.mInteractiveStart),
                      Rebased(arg.before.mInteractiveEnd))

(***************************************************************************)
(* SpecScoped: replacing in the selection.  The panel has searched with    *)
(* "in selection" on and the cursor selecting a range, so that the range   *)
(* is remembered; then ReplaceAll is called, or ReplaceCurrent up to       *)
(* ScopedMaxCalls times.  arg holds the text and the offsets of the range  *)
(* at the start, pc the calls made and res the command called.             *)
(***************************************************************************)
ScopedMaxCalls == 2

ScopedArg(i) ==
    [text |-> DocText(i.lines),
     from |-> TextOffset(i.lines, 4, i.find.mFindSelectionRangeStart),
     to |-> TextOffset(i.lines, 4, i.find.mFindSelectionRangeEnd),
     matches |-> OffsetsOf(i.lines, i.find)]

InitScoped ==
    /\ mColor = NoColor
    /\ \E i \in ReplaceInputs(ReplTexts) :
          /\ i.find.mFindSelectionOnly
          /\ i.find.mFindSelectionRangeValid
          /\ mLines = i.lines
          /\ mState = ReplaceState(i.cursor)
          /\ mFind = i.find
          /\ arg = ScopedArg(i)
    /\ mTabSize = 4
    /\ res = "none"
    /\ pc = 0
    /\ mUndoBuffer = NoUndo
    /\ mUndoIndex = 0
    /\ mCursorPositionChanged = FALSE
    /\ mDraggingSelection = FALSE
    /\ mReadOnly = FALSE
    /\ fault = "none"

\* ReplaceCurrent(), the "Replace" button
ScopedReplaceCurrent ==
    /\ pc < ScopedMaxCalls
    /\ res \in { "none", "ReplaceCurrent" }
    /\ fault # "oob"
    /\ Commit(ReplaceCurrent(Ed))
    /\ pc' = pc + 1
    /\ res' = "ReplaceCurrent"
    /\ UNCHANGED arg

\* ReplaceAll(), the "Replace All" button
ScopedReplaceAll ==
    /\ pc = 0
    /\ Commit(ReplaceAll(Ed).e)
    /\ pc' = 1
    /\ res' = "ReplaceAll"
    /\ UNCHANGED arg

NextScoped == ScopedReplaceCurrent \/ ScopedReplaceAll

SpecScoped == InitScoped /\ [][NextScoped]_vars

\* the text before the range and the text behind it are those of the start
OutsideUnchanged ==
    /\ Len(DocText(mLines)) >= arg.from + Len(arg.text) - arg.to
    /\ SubSeq(DocText(mLines), 1, arg.from) = SubSeq(arg.text, 1, arg.from)
    /\ SubSeq(DocText(mLines),
              Len(DocText(mLines)) - (Len(arg.text) - arg.to) + 1,
              Len(DocText(mLines)))
         = SubSeq(arg.text, arg.to + 1, Len(arg.text))

\* the results are those of a search in what the range has become
StillScoped ==
    /\ mFind.mFindSelectionRangeValid
    /\ TextOffset(mLines, 4, mFind.mFindSelectionRangeStart) = arg.from
    /\ Len(DocText(mLines))
         - TextOffset(mLines, 4, mFind.mFindSelectionRangeEnd)
         = Len(arg.text) - arg.to

\* C32: with "in selection" on and a remembered range, ReplaceAll and a
\* sequence of ReplaceCurrent calls leave the text outside the range as it
\* was, and the search stays scoped to the range after each replacement.
C32_ReplaceStaysInSelection ==
    pc > 0 /\ fault = "none" /\ arg.matches # << >> =>
        OutsideUnchanged /\ StillScoped

\* The commands of the keyboard handler that move the cursors, delete and
\* type.
CursorCommands ==
    { "MoveLeft", "MoveRight", "MoveUp", "MoveDown",
      "Delete", "Backspace", "EnterCharacter" }

\* C33: after any sequence of operations, SetText and SetTextLines to a
\* shorter content, line removal, undo and redo included, no command that
\* moves the cursors, deletes or types indexes mLines with a cursor line
\* outside [0, lineCount - 1] or a line with a glyph index outside it.
C33_CommandsStayInBounds == fault = "oob" => arg.op \notin CursorCommands

(***************************************************************************)
(* SpecSort: one call of EditorState::SortCursorsFromTopToBottom on a      *)
(* cursor vector of up to SortMaxCursors entries, of which the first       *)
(* mCurrentCursor + 1 are live.  std::sort does not promise to keep the    *)
(* order of elements that compare equal: the call leaves the live cursors  *)
(* in any order that is sorted by selection start.  arg is the state       *)
(* before the call.                                                        *)
(***************************************************************************)
SortMaxCursors == 3
SortMaxColumn == 1

SortCoordinates ==
    { Coordinates(0, c) : c \in 0 .. SortMaxColumn } \cup { Coordinates(1, 0) }

SortCursorsOf == { Cursor(s, e) : s \in SortCoordinates, e \in SortCoordinates }

\* the results std::sort may leave of cs
SortOutcomes(cs) ==
    { o \in { [i \in 1 .. Len(cs) |-> cs[p[i]]] : p \in Permutations(1 .. Len(cs)) } :
        SortedByStart(o, Len(cs) - 1) }

InitSort ==
    /\ \E n \in 1 .. SortMaxCursors :
         \E cs \in [1 .. n -> SortCursorsOf] :
             \E current \in 0 .. n - 1, added \in 0 .. n - 1 :
                 mState = [mCursors |-> cs, mCurrentCursor |-> current,
                           mLastAddedCursor |-> added]
    /\ arg = mState
    /\ res = 0
    /\ pc = "input"
    /\ mLines = << << 97 >>, << >> >>
    /\ mTabSize = 4
    /\ mUndoBuffer = NoUndo
    /\ mUndoIndex = 0
    /\ mCursorPositionChanged = FALSE
    /\ mDraggingSelection = FALSE
    /\ mReadOnly = FALSE
    /\ mFind = NoFind
    /\ mColor = NoColor
    /\ fault = "none"

\* mState.SortCursorsFromTopToBottom()
SortCall ==
    /\ pc = "input"
    /\ \E live \in SortOutcomes(SubSeq(mState.mCursors, 1,
                                       mState.mCurrentCursor + 1)) :
          mState' = SortCursorsFromTopToBottomWith(mState, live)
    /\ pc' = "sorted"
    /\ UNCHANGED << mLines, mUndoBuffer, mUndoIndex, mTabSize,
                    mCursorPositionChanged, mDraggingSelection, mReadOnly, mFind,
                    mColor, fault, arg, res >>

NextSort == SortCall

SpecSort == InitSort /\ [][NextSort]_vars

\* the live cursors are in nondecreasing order of selection start
SortLeavesOrder == SortedByStart(mState.mCursors, mState.mCurrentCursor)

\* p takes the places after the sort to the places before it
SortMoves(p) ==
    \A i \in 1 .. arg.mCurrentCursor + 1 : mState.mCursors[i] = arg.mCursors[p[i]]

\* the cursors are those of before, each as often as before, the live ones
\* among the live ones
SortKeepsCursors ==
    /\ mState.mCurrentCursor = arg.mCurrentCursor
    /\ Len(mState.mCursors) = Len(arg.mCursors)
    /\ \A i \in arg.mCurrentCursor + 2 .. Len(arg.mCursors) :
           mState.mCursors[i] = arg.mCursors[i]
    /\ \E p \in Permutations(1 .. arg.mCurrentCursor + 1) : SortMoves(p)

\* cursors with the same selection start are in the order they had
SortIsStable ==
    \E p \in Permutations(1 .. arg.mCurrentCursor + 1) :
        /\ SortMoves(p)
        /\ \A i, j \in 1 .. arg.mCurrentCursor + 1 :
               i < j /\ GetSelectionStart(mState.mCursors[i])
                          = GetSelectionStart(mState.mCursors[j])
                 => p[i] < p[j]

\* the last-added index is that of a cursor with the head of the cursor
\* that was last added
SortKeepsLastAdded ==
    /\ mState.mLastAddedCursor \in 0 .. mState.mCurrentCursor
    /\ mState.mCursors[mState.mLastAddedCursor + 1].mInteractiveEnd
         = arg.mCursors[GetLastAddedCursorIndex(arg) + 1].mInteractiveEnd

\* C34: SortCursorsFromTopToBottom leaves the live cursors in nondecreasing
\* order of selection start, cursors with equal selection start in their
\* previous order, the multiset of cursors as it was, and the last-added
\* index at a cursor whose head is the head of the cursor that was last
\* added before the sort.
C34_SortIsStableAndKeepsLastAdded ==
    pc = "sorted" =>
        SortLeavesOrder /\ SortKeepsCursors /\ SortIsStable /\ SortKeepsLastAdded

(***************************************************************************)
(* SpecRefresh: RefreshFindResults, literal or regex, with every setting   *)
(* of the flags, on the whole document or, with mFindSelectionOnly, on the *)
(* selection of the cursor.  arg holds the coordinates of the range that   *)
(* is searched.                                                            *)
(***************************************************************************)
RefreshMaxGlyphs == 3

RefreshGlyphs == { << 97 >>, << 65 >>, GlyphTab, << NL >> }

RefreshTexts ==
    { Flatten(g) :
        g \in UNION { [1 .. k -> RefreshGlyphs] : k \in 0 .. RefreshMaxGlyphs } }

\* "a", "aa", "(a)", "()" and "("
RefreshPatterns ==
    { << 97 >>, << 97, 97 >>, << LPAREN, 97, RPAREN >>, << LPAREN, RPAREN >>,
      << LPAREN >> }

\* the range RefreshFindResults searches on a panel that remembers none
RefreshRange(lines, ts, cursor, selectionOnly) ==
    IF selectionOnly /\ HasSelection(cursor)
    THEN [start |-> GetSelectionStart(cursor), end |-> GetSelectionEnd(cursor)]
    ELSE [start |-> Coordinates(0, 0),
          end |-> Coordinates(Len(lines) - 1,
                              GetLineMaxColumn(lines, ts, Len(lines) - 1))]

InitRefresh ==
    /\ mColor = NoColor
    /\ \E aText \in RefreshTexts : mLines = TextToLines(aText, << << >> >>)
    /\ mTabSize = 4
    /\ \E s \in ValidCoordinates(mLines, mTabSize) :
         \E e \in ValidCoordinates(mLines, mTabSize) :
             /\ CoordLE(s, e)
             /\ mState = [mCursors |-> << Cursor(s, e) >>,
                          mCurrentCursor |-> 0, mLastAddedCursor |-> 0]
    /\ \E pattern \in RefreshPatterns :
         \E flags \in [caseSensitive : BOOLEAN, wholeWord : BOOLEAN,
                        selectionOnly : BOOLEAN, useRegex : BOOLEAN] :
             mFind = [NoFind EXCEPT !.mFindBuffer = pattern,
                                    !.mShowFindPanel = TRUE,
                                    !.mFindCaseSensitive = flags.caseSensitive,
                                    !.mFindWholeWord = flags.wholeWord,
                                    !.mFindSelectionOnly = flags.selectionOnly,
                                    !.mFindUseRegex = flags.useRegex]
    /\ arg = RefreshRange(mLines, mTabSize, mState.mCursors[1],
                          mFind.mFindSelectionOnly)
    /\ res = << >>
    /\ pc = "input"
    /\ mUndoBuffer = NoUndo
    /\ mUndoIndex = 0
    /\ mCursorPositionChanged = FALSE
    /\ mDraggingSelection = FALSE
    /\ mReadOnly = FALSE
    /\ fault = "none"

\* RefreshFindResults(aPreserveSelection)
RefreshAnyCall ==
    /\ pc = "input"
    /\ \E aPreserveSelection \in BOOLEAN :
         Commit(RefreshFindResults(Ed, aPreserveSelection))
    /\ pc' = "searched"
    /\ UNCHANGED << arg, res >>

NextRefresh == RefreshAnyCall

SpecRefresh == InitRefresh /\ [][NextRefresh]_vars

\* every result has its start before its end and lies in the range
ResultsInRange ==
    \A k \in 1 .. Len(mFind.mFindResults) :
        /\ CoordLT(mFind.mFindResults[k].mStart, mFind.mFindResults[k].mEnd)
        /\ CoordLE(arg.start, mFind.mFindResults[k].mStart)
        /\ CoordLE(mFind.mFindResults[k].mEnd, arg.end)

\* each result starts behind the one before and not before its end
ResultsAscend ==
    \A k \in 1 .. Len(mFind.mFindResults) - 1 :
        /\ CoordLT(mFind.mFindResults[k].mStart, mFind.mFindResults[k + 1].mStart)
        /\ CoordLE(mFind.mFindResults[k].mEnd, mFind.mFindResults[k + 1].mStart)

C36_NoAssertionFails == fault # "assert"

(***************************************************************************)
(* The SQL completion pop-up.  Its members are not kept in the state:      *)
(* UpdateAutoComplete runs at the end of a frame that has typed or deleted *)
(* a character, and the pop-up is accepted in the frame after, so what it  *)
(* has stored is computed from the cursor at the time of the acceptance.   *)
(***************************************************************************)
ToUpper(c) == IF c >= 97 /\ c <= 122 THEN c - 32 ELSE c

UpperCase(text) == [i \in 1 .. Len(text) |-> ToUpper(text[i])]

\* `while (wordStart > 0 && CharIsWordChar(line[wordStart - 1].mChar))'
RECURSIVE WordStartIndex(_, _)
WordStartIndex(line, wordStart) ==
    IF wordStart > 0 /\ CharIsWordChar(line[wordStart])
    THEN WordStartIndex(line, wordStart - 1)
    ELSE wordStart

\* UpdateAutoComplete: mAutoCompleteWordStart, mAutoCompleteWordEnd and
\* currentWord for the cursor at coords
AutoCompleteWordAt(e, coords, charIndex, wordStart) ==
    [mAutoCompleteWordStart |->
         Coordinates(coords.mLine, Column(e, coords.mLine, wordStart)),
     mAutoCompleteWordEnd |-> coords,
     currentWord |-> SubLine(LineAt(e, coords.mLine), wordStart, charIndex)]

AutoCompleteWordOf(e, coords, charIndex) ==
    AutoCompleteWordAt(e, coords, charIndex,
                       WordStartIndex(LineAt(e, coords.mLine), charIndex))

AutoCompleteWord(e, coords) == AutoCompleteWordOf(e, coords, IndexL(e, coords))

\* UpdateAutoComplete: keyword is among mAutoCompleteSuggestions
Suggested(currentWord, keyword) ==
    /\ currentWord # << >>
    /\ Len(keyword) >= Len(currentWord)
    /\ SubSeq(UpperCase(keyword), 1, Len(currentWord)) = UpperCase(currentWord)
    /\ UpperCase(keyword) # UpperCase(currentWord)

\* AcceptAutoComplete() behind InsertTextAt, which has returned inserted
AutoCompleteInserted(inserted, aFromLine) ==
    Colorize(SetCursorPosition(inserted[1], inserted[2],
                               inserted[1].mState.mCurrentCursor, TRUE),
             aFromLine, 1)

\* AcceptAutoComplete() with the pop-up shown for word and suggestion the
\* selected entry
AcceptAutoComplete(e, word, suggestion) ==
    IF ~Ok(e) THEN e
    ELSE AutoCompleteInserted(
             InsertTextAt(DeleteRange(e, word.mAutoCompleteWordStart,
                                      word.mAutoCompleteWordEnd),
                          word.mAutoCompleteWordStart,
                          suggestion \o << SPACE >>),
             word.mAutoCompleteWordStart.mLine)

(***************************************************************************)
(* SpecCovered: the commands that change the text, up to CoveredMaxCalls   *)
(* frames, on the document "a" + line feed + "a" given by SetText, with    *)
(* the SQL definition set and the find panel shown, searching "a" and      *)
(* replacing with "b".  No frame undoes: the invariant undoes.             *)
(***************************************************************************)
CoveredMaxCalls == 3

CoveredText == << 97, NL, 97 >>

\* the names the host has passed as extra keywords
ExtraKeywords == { << 97, 98 >> }

InitCovered ==
    /\ mLines = TextToLines(CoveredText, << << >> >>)
    /\ mState = OneCursor
    /\ mTabSize = 4
    /\ mFind = Searched(mLines, mTabSize, mState,
                        [NoFind EXCEPT !.mFindBuffer = << 97 >>,
                                       !.mReplaceBuffer = << 98 >>,
                                       !.mShowFindPanel = TRUE])
    /\ mColor = SetLanguageDefinition(EditorOn(mLines, mTabSize, mState, mFind),
                                      "Sql").mColor
    /\ mReadOnly = FALSE
    /\ mUndoBuffer = NoUndo
    /\ mUndoIndex = 0
    /\ mCursorPositionChanged = FALSE
    /\ mDraggingSelection = FALSE
    /\ fault = "none"
    /\ pc = 0
    /\ arg = [op |-> "SetText", k |-> 0, index |-> 0, size |-> 0]
    /\ res = << >>

\* Tab or Enter with the pop-up shown: HandleKeyboardInputs calls
\* AcceptAutoComplete and returns.
KeyAcceptAutoComplete(limit, keywords) ==
    /\ arg.op \in { "EnterCharacter", "Backspace", "Delete" }
    /\ \E suggestion \in keywords :
         LET command(e) ==
                 IF Suggested(AutoCompleteWord(e,
                        GetSanitizedCursorCoordinates(e, e.mState.mCurrentCursor)).currentWord,
                        suggestion)
                 THEN AcceptAutoComplete(e,
                          AutoCompleteWord(e,
                              GetSanitizedCursorCoordinates(e, e.mState.mCurrentCursor)),
                          suggestion)
                 ELSE e
         IN Event(limit, "AcceptAutoComplete", command)

NextCovered ==
    \/ KeyCharacter(CoveredMaxCalls, {97})
    \/ KeyDelete(CoveredMaxCalls)
    \/ KeyBackspace(CoveredMaxCalls)
    \/ KeyPaste(CoveredMaxCalls, { << 97 >> })
    \/ KeyMoveLinesUp(CoveredMaxCalls)
    \/ KeyMoveLinesDown(CoveredMaxCalls)
    \/ KeyRightArrow(CoveredMaxCalls, BOOLEAN)
    \/ KeyDownArrow(CoveredMaxCalls, {FALSE})
    \/ PanelReplace(CoveredMaxCalls)
    \/ PanelReplaceAll(CoveredMaxCalls)
    \/ KeyAcceptAutoComplete(CoveredMaxCalls, ExtraKeywords)

SpecCovered == InitCovered /\ [][NextCovered]_vars

\* the text once Undo has been called until nothing is left to undo
TextAllUndone == DocText(UndoSteps(Ed, mUndoIndex).mLines)

\* C37: in every reachable state, undoing all recorded edits gives the text
\* of the last SetText, whatever typing, deleting, pasting, moving lines,
\* ReplaceCurrent, ReplaceAll and AcceptAutoComplete have led to the state.
C37_UndoCoversEveryEdit == fault = "none" => TextAllUndone = CoveredText

(***************************************************************************)
(* SpecSettle: the find results after the edits have stopped.  A document  *)
(* of one line has been searched for "a", with the find panel shown or     *)
(* closed.  A bounded number of frames carry an edit (typing, Backspace,   *)
(* Delete, paste, the toggle "Whole word"), and the host may call SetText  *)
(* between frames; pc counts these.  Frames without input are not counted: *)
(* the host keeps calling Render, each time with a positive io.DeltaTime,  *)
(* which may be a small part of the defer interval.                        *)
(* For a frame without input arg holds mFindResultsDirty and               *)
(* mFindRefreshPending as the frame has found them.                        *)
(***************************************************************************)
SettleMaxEdits == 2
SettleTexts == { << >>, << 97, 97 >> }

\* io.DeltaTime of a frame without input: 0.02 s and 0.06 s
SettleDeltaTimes == { 1, 3 }

InitSettle ==
    /\ mColor = NoColor
    /\ mLines = << << 97, 97 >> >>
    /\ mState = OneCursor
    /\ mTabSize = 4
    /\ \E shown \in BOOLEAN :
         mFind = Searched(mLines, mTabSize, mState,
                          [NoFind EXCEPT !.mFindBuffer = << 97 >>,
                                         !.mShowFindPanel = shown])
    /\ mReadOnly = FALSE
    /\ mUndoBuffer = NoUndo
    /\ mUndoIndex = 0
    /\ mCursorPositionChanged = FALSE
    /\ mDraggingSelection = FALSE
    /\ fault = "none"
    /\ pc = 0
    /\ arg = [op |-> "TextEditor", k |-> 0, index |-> 0, size |-> 0]
    /\ res = << >>

\* Render(aTitle, ...) in a frame without input
SettleIdle ==
    \E DeltaTime \in SettleDeltaTimes :
        /\ fault # "oob"
        /\ \E begun \in { RenderBegin(Ed) } :
             \E colorized \in { ColorizeInternal(begun) } :
               \E drawn \in { RenderFindRefresh(colorized, DeltaTime) } :
                 \E ended \in { RenderFindReplacePanel(drawn, DeltaTime) } :
                     Commit(ended)
        /\ arg' = [op |-> "Render", dirty |-> mFind.mFindResultsDirty,
                   pending |-> mFind.mFindRefreshPending]
        /\ UNCHANGED << pc, res >>

NextSettle ==
    \/ KeyCharacter(SettleMaxEdits, { 97 })
    \/ KeyBackspace(SettleMaxEdits)
    \/ KeyDelete(SettleMaxEdits)
    \/ KeyPaste(SettleMaxEdits, { << 97 >> })
    \/ PanelToggleWholeWord(SettleMaxEdits)
    \/ CallSetText(SettleMaxEdits, SettleTexts)
    \/ SettleIdle

\* The host calls Render in every frame.
SpecSettle == InitSettle /\ [][NextSettle]_vars /\ WF_vars(SettleIdle)

\* What RefreshFindResults finds in the document as it is.
FreshSearch == RefreshFindResults(Ed, FALSE).mFind.mFindResults

FindUpToDate ==
    /\ ~mFind.mFindResultsDirty
    /\ ~mFind.mFindRefreshPending
    /\ mFind.mFindResults = FreshSearch

\* C38: when the edits have stopped with the find results dirty, deferred
\* or not, and Render is called in every frame with a positive elapsed
\* time, then after finitely many frames the dirty flag and the pending
\* flag are clear and the result list is that of a fresh search of the
\* document with the pattern and flags as they are.
C38_DirtyResultsSettle == mFind.mFindResultsDirty ~> FindUpToDate

\* A frame without input has found a deferred refresh pending and has left
\* the results up to date, with a match in them.
C38_Witness ==
    /\ arg.op = "Render"
    /\ arg.dirty /\ arg.pending
    /\ FindUpToDate
    /\ mFind.mFindResults # << >>
    /\ pc = SettleMaxEdits

(***************************************************************************)
(* FindNextOccurrence, AddCursorForNextOccurrence, SelectAllOccurrencesOf  *)
(***************************************************************************)
\* `toCompareA - 'A' + 'a'' for the letters A to Z unless aCaseSensitive
CompareChar(ch, aCaseSensitive) ==
    IF ~aCaseSensitive /\ ch >= 65 /\ ch <= 90 THEN ch - 65 + 97 ELSE ch

\* The match function of FindNextOccurrence at (fline, findex): i,
\* lineOffset and currentCharIndex when its for loop is left.
RECURSIVE MatchLoop(_, _, _, _, _, _, _)
MatchLoop(lines, aText, aCaseSensitive, fline, lineOffset, currentCharIndex, i) ==
    IF i >= Len(aText)
    THEN [i |-> i, lineOffset |-> lineOffset, currentCharIndex |-> currentCharIndex]
    ELSE IF currentCharIndex = Len(lines[fline + lineOffset + 1])
    THEN IF aText[i + 1] = NL /\ fline + lineOffset + 1 < Len(lines)
         THEN MatchLoop(lines, aText, aCaseSensitive, fline, lineOffset + 1, 0, i + 1)
         ELSE [i |-> i, lineOffset |-> lineOffset,
               currentCharIndex |-> currentCharIndex]
    ELSE IF CompareChar(lines[fline + lineOffset + 1][currentCharIndex + 1], aCaseSensitive)
              # CompareChar(aText[i + 1], aCaseSensitive)
    THEN [i |-> i, lineOffset |-> lineOffset, currentCharIndex |-> currentCharIndex]
    ELSE MatchLoop(lines, aText, aCaseSensitive, fline, lineOffset,
                   currentCharIndex + 1, i + 1)

\* "move forward": the next (fline, findex), wrapping behind the last line
MoveForward(lines, fline, findex) ==
    IF findex # Len(lines[fline + 1]) THEN << fline, findex + 1 >>
    ELSE IF fline = Len(lines) - 1 THEN << 0, 0 >>
    ELSE << fline + 1, 0 >>

\* The result of FindNextOccurrence; tested holds the positions at which
\* the match function has run, in turn.
Occurrence(found, outStart, outEnd, tested) ==
    [found |-> found, outStart |-> outStart, outEnd |-> outEnd, tested |-> tested]

\* `Coordinates nextStart, nextEnd;' as the callers declare them
NoCoordinates == Coordinates(0, 0)

\* The loop `while (true)' of FindNextOccurrence, entered at (fline, findex);
\* start is (ifline, ifindex).
RECURSIVE OccurrenceLoop(_, _, _, _, _, _, _, _)
OccurrenceNext(lines, ts, aText, aCaseSensitive, start, fline, findex, tested) ==
    IF findex = Len(lines[fline + 1]) /\ fline = Len(lines) - 1 /\ start = << 0, 0 >>
    THEN Occurrence(FALSE, NoCoordinates, NoCoordinates, tested)
    ELSE IF start # << 0, 0 >> /\ MoveForward(lines, fline, findex) = start
    THEN Occurrence(FALSE, NoCoordinates, NoCoordinates, tested)
    ELSE OccurrenceLoop(lines, ts, aText, aCaseSensitive, start,
                        MoveForward(lines, fline, findex)[1],
                        MoveForward(lines, fline, findex)[2], tested)

OccurrenceMatched(lines, ts, aText, aCaseSensitive, start, fline, findex, tested, m) ==
    IF m.i = Len(aText)
    THEN Occurrence(TRUE,
             Coordinates(fline, GetCharacterColumn(lines, ts, fline, findex)),
             Coordinates(fline + m.lineOffset,
                 GetCharacterColumn(lines, ts, fline + m.lineOffset, m.currentCharIndex)),
             tested)
    ELSE OccurrenceNext(lines, ts, aText, aCaseSensitive, start, fline, findex, tested)

OccurrenceLoop(lines, ts, aText, aCaseSensitive, start, fline, findex, tested) ==
    OccurrenceMatched(lines, ts, aText, aCaseSensitive, start, fline, findex,
        Append(tested, << fline, findex >>),
        MatchLoop(lines, aText, aCaseSensitive, fline, 0, findex, 0))

\* FindNextOccurrence reads mLines[fline] with fline = aFrom.mLine.
FindNextOccurrenceReadsPastEnd(lines, aFrom) == PastLastLine(lines, aFrom.mLine)

\* FindNextOccurrence(aText, aTextSize, aFrom, outStart, outEnd, aCaseSensitive)
FindNextOccurrence(lines, ts, aText, aFrom, aCaseSensitive) ==
    IF FindNextOccurrenceReadsPastEnd(lines, aFrom)
    THEN Occurrence(FALSE, NoCoordinates, NoCoordinates, << >>)
    ELSE OccurrenceLoop(lines, ts, aText, aCaseSensitive,
             << aFrom.mLine, GetCharacterIndexR(lines, ts, aFrom) >>,
             aFrom.mLine, GetCharacterIndexR(lines, ts, aFrom), << >>)

\* A call of FindNextOccurrence: its assert and its reads, on the editor.
FindNextOccurrenceChecked(e, aText, aFrom) ==
    IF ~Ok(e) THEN e
    ELSE IF FindNextOccurrenceReadsPastEnd(e.mLines, aFrom)
    THEN Oob(AssertThat(e, Len(aText) > 0))
    ELSE AssertThat(e, Len(aText) > 0)

SelectOccurrence(e, found, aCursor) ==
    SetSelection(e, found.outStart, found.outEnd, aCursor)

\* SelectNextOccurrenceOf(aText, aTextSize, aCursor, aCaseSensitive)
SelectNextOccurrenceOf(e, aText, aCursor, aCaseSensitive) ==
    IF ~Ok(FindNextOccurrenceChecked(e, aText, CursorAt(e, aCursor).mInteractiveEnd))
    THEN FindNextOccurrenceChecked(e, aText, CursorAt(e, aCursor).mInteractiveEnd)
    ELSE SelectOccurrence(
             FindNextOccurrenceChecked(e, aText, CursorAt(e, aCursor).mInteractiveEnd),
             FindNextOccurrence(e.mLines, e.mTabSize, aText,
                                CursorAt(e, aCursor).mInteractiveEnd, aCaseSensitive),
             aCursor)

\* AddCursorForNextOccurrence behind a successful FindNextOccurrence
AddCursorAt(e, found) ==
    [SelectOccurrence(AddCursor(e), found, e.mState.mCurrentCursor + 1)
       EXCEPT !.mState = MergeCursorsIfPossible(SortCursorsFromTopToBottom(@))]

AddCursorForFound(e, found) ==
    IF ~Ok(e) \/ ~found.found THEN e ELSE AddCursorAt(e, found)

AddCursorForSelection(e, currentCursor, aCaseSensitive) ==
    AddCursorForFound(
        FindNextOccurrenceChecked(
            GetTextChecked(e, GetSelectionStart(currentCursor), GetSelectionEnd(currentCursor)),
            GetText(e, GetSelectionStart(currentCursor), GetSelectionEnd(currentCursor)),
            GetSelectionEnd(currentCursor)),
        FindNextOccurrence(e.mLines, e.mTabSize,
            GetText(e, GetSelectionStart(currentCursor), GetSelectionEnd(currentCursor)),
            GetSelectionEnd(currentCursor), aCaseSensitive))

\* AddCursorForNextOccurrence(aCaseSensitive)
AddCursorForNextOccurrence(e, aCaseSensitive) ==
    IF ~Ok(e) \/ ~HasSelection(CursorAt(e, GetLastAddedCursorIndex(e.mState))) THEN e
    ELSE AddCursorForSelection(e, CursorAt(e, GetLastAddedCursorIndex(e.mState)),
                               aCaseSensitive)

\* SelectAllOccurrencesOf up to `Coordinates startPos = ...'
SelectAllEnter(e, aText, aCaseSensitive) ==
    SelectNextOccurrenceOf(ClearExtraCursors(ClearSelections(e)), aText,
                           0, aCaseSensitive)

\* mState.mCursors[mState.GetLastAddedCursorIndex()].mInteractiveEnd
LastAddedPos(e) == CursorAt(e, GetLastAddedCursorIndex(e.mState)).mInteractiveEnd

(***************************************************************************)
(* SpecOccur: one call of FindNextOccurrence, or one call of               *)
(* SelectAllOccurrencesOf taken turn by turn of its loop, on every         *)
(* document of up to OccurMaxGlyphs glyphs with one cursor at any          *)
(* coordinates of the document.  arg holds the call's arguments, the       *)
(* cursor before the call, startPos and the number of turns of the loop;   *)
(* res holds what FindNextOccurrence has returned.                         *)
(***************************************************************************)
OccurMaxGlyphs == 4
OccurMaxTurns == 6
OccurGlyphs == { 97, 65, NL }
OccurTexts == UNION { [1 .. n -> OccurGlyphs] : n \in 0 .. OccurMaxGlyphs }
OccurPatterns == { << 97 >>, << 97, 97 >>, << 97, NL >>, << 98 >> }

InitOccur ==
    /\ \E text \in OccurTexts, aText \in OccurPatterns, aCaseSensitive \in BOOLEAN :
         /\ mLines = TextToLines(text, << << >> >>)
         /\ \E at \in ValidCoordinates(mLines, 4) :
              /\ mState = [OneCursor EXCEPT !.mCursors[1] = Cursor(at, at)]
              /\ arg = [aText |-> aText, aCaseSensitive |-> aCaseSensitive,
                        aFrom |-> at, startPos |-> at, turns |-> 0]
    /\ mTabSize = 4
    /\ mFind = NoFind
    /\ mColor = NoColor
    /\ mReadOnly = FALSE
    /\ mUndoBuffer = NoUndo
    /\ mUndoIndex = 0
    /\ mCursorPositionChanged = FALSE
    /\ mDraggingSelection = FALSE
    /\ fault = "none"
    /\ pc = "input"
    /\ res = Occurrence(FALSE, NoCoordinates, NoCoordinates, << >>)

\* FindNextOccurrence(aText, aTextSize, aFrom, outStart, outEnd, aCaseSensitive)
FindNextOccurrenceCall ==
    /\ pc = "input"
    /\ Commit(FindNextOccurrenceChecked(Ed, arg.aText, arg.aFrom))
    /\ res' = FindNextOccurrence(mLines, mTabSize, arg.aText, arg.aFrom,
                                 arg.aCaseSensitive)
    /\ pc' = "returned"
    /\ arg' = arg

\* SelectAllOccurrencesOf(aText, aTextSize, aCaseSensitive) up to its loop
SelectAllHead ==
    /\ pc = "input"
    /\ \E entered \in { SelectAllEnter(Ed, arg.aText, arg.aCaseSensitive) } :
         /\ Commit(entered)
         /\ arg' = [arg EXCEPT !.startPos = LastAddedPos(entered)]
    /\ pc' = "loop"
    /\ res' = res

\* One turn of the loop `while (true)' of SelectAllOccurrencesOf.
SelectAllTurn ==
    /\ pc = "loop"
    /\ fault # "oob"
    /\ arg.turns < OccurMaxTurns
    /\ \E added \in { AddCursorForNextOccurrence(Ed, arg.aCaseSensitive) } :
         /\ Commit(added)
         /\ pc' = IF LastAddedPos(added) = arg.startPos THEN "done" ELSE "loop"
    /\ arg' = [arg EXCEPT !.turns = @ + 1]
    /\ res' = res

NextOccur == FindNextOccurrenceCall \/ SelectAllHead \/ SelectAllTurn

SpecOccur == InitOccur /\ [][NextOccur]_vars

\* The text between the ends of cursor c's selection.
SelectedBy(c) ==
    GetText(Ed, GetSelectionStart(CursorAt(Ed, c)), GetSelectionEnd(CursorAt(Ed, c)))

\* The offsets of cursor c's selection in the document.
SelectedRange(c) ==
    << CoordinateToOffset(Ed, GetSelectionStart(CursorAt(Ed, c))),
       CoordinateToOffset(Ed, GetSelectionEnd(CursorAt(Ed, c))) >>

OccurFold(text) == IF arg.aCaseSensitive THEN text ELSE LowerCase(text)

\* The offsets at which aText occurs in the document.
OccurrenceOffsets ==
    { o \in 0 .. Len(DocText(mLines)) - Len(arg.aText) :
        OccurFold(SubSeq(DocText(mLines), o + 1, o + Len(arg.aText)))
            = OccurFold(arg.aText) }

\* The occurrence at o shares no glyph with another occurrence.
OverlapsNone(o) ==
    \A p \in OccurrenceOffsets :
        p = o \/ p + Len(arg.aText) <= o \/ o + Len(arg.aText) <= p

\* The loop of SelectAllOccurrencesOf has not run OccurMaxTurns turns
\* without leaving.
SelectAllEnds == fault = "none" /\ (pc = "loop" => arg.turns < OccurMaxTurns)

\* Every cursor selects an occurrence of aText, and every occurrence that
\* overlaps no other is selected by one cursor; without an occurrence one
\* cursor is left, with no selection.
CursorsOnOccurrences ==
    IF OccurrenceOffsets = {}
    THEN mState.mCurrentCursor = 0 /\ ~HasSelection(CursorAt(Ed, 0))
    ELSE /\ \A c \in LiveCursors(Ed) :
              /\ HasSelection(CursorAt(Ed, c))
              /\ OccurFold(SelectedBy(c)) = OccurFold(arg.aText)
         /\ \A o \in OccurrenceOffsets :
              OverlapsNone(o) =>
                  Cardinality({ c \in LiveCursors(Ed) :
                      SelectedRange(c) = << o, o + Len(arg.aText) >> }) = 1

\* The match function has run at no position twice.
TestedOnce ==
    \A i, j \in 1 .. Len(res.tested) : i # j => res.tested[i] # res.tested[j]

\* C39: SelectAllOccurrencesOf terminates for every document, every
\* non-empty text and every cursor position, and ends with one cursor
\* selecting each non-overlapping occurrence found; FindNextOccurrence
\* tests each position at most once and returns false exactly when the text
\* does not occur.
C39_SelectAllOccurrencesEnds ==
    /\ SelectAllEnds
    /\ pc = "done" => CursorsOnOccurrences
    /\ pc = "returned" =>
          TestedOnce /\ (res.found <=> OccurrenceOffsets # {})

(***************************************************************************)
(* GetText() and GetTextLines(), and SpecRoundTrip: a character is typed   *)
(* into a fresh editor that searches for "a" (so that there is an undo     *)
(* record and a list of find results), then the host calls SetText or      *)
(* SetTextLines and reads the document back with GetText or GetTextLines.  *)
(* The strings are all sequences of up to RoundMaxBytes bytes over a       *)
(* letter, tab, line feed, carriage return and the two bytes of U+00E9.    *)
(* arg holds the setter and its argument, res what the getter returns.     *)
(***************************************************************************)
\* the end coordinates GetText() computes
GetTextEnd(e) == Coordinates(LineCount(e) - 1, MaxColumn(e, LineCount(e) - 1))

\* GetText()
GetTextAll(e) ==
    IF CoordLT(Coordinates(0, 0), GetTextEnd(e))
    THEN GetText(e, Coordinates(0, 0), GetTextEnd(e))
    ELSE << >>

\* GetTextLines(): `text[i] = line[i].mChar' for every glyph of every line
GetTextLines(e) ==
    [l \in 1 .. Len(e.mLines) |->
        [i \in 1 .. Len(e.mLines[l]) |-> e.mLines[l][i]]]

RoundMaxBytes == 3
RoundMaxLines == 2
RoundBytes == { 97, TAB, NL, CR, 195, 169 }
RoundStrings == UNION { [1 .. n -> RoundBytes] : n \in 0 .. RoundMaxBytes }
RoundLines == UNION { [1 .. n -> { 97, NL, CR, 195 }] : n \in 0 .. 1 }
RoundLineLists == UNION { [1 .. n -> RoundLines] : n \in 0 .. RoundMaxLines }

InitRoundTrip ==
    /\ mColor = NoColor
    /\ mLines = << << >> >>
    /\ mState = OneCursor
    /\ mTabSize = 4
    /\ mFind = Searched(mLines, mTabSize, mState,
                        [NoFind EXCEPT !.mFindBuffer = << 97 >>])
    /\ mReadOnly = FALSE
    /\ mUndoBuffer = NoUndo
    /\ mUndoIndex = 0
    /\ mCursorPositionChanged = FALSE
    /\ mDraggingSelection = FALSE
    /\ fault = "none"
    /\ pc = "fresh"
    /\ arg = [op |-> "TextEditor", aText |-> << >>, aLines |-> << >>]
    /\ res = << >>

\* a frame in which 'a' is typed
RoundTripType ==
    /\ pc = "fresh"
    /\ \E DeltaTime \in DeltaTimes :
         \E handled \in { EnterCharacter(RenderBegin(Ed), 97, FALSE) } :
            \E ended \in { RenderEnd(handled, DeltaTime) } : Commit(ended)
    /\ pc' = "typed"
    /\ UNCHANGED << arg, res >>

\* SetText(aText), called by the host
RoundTripSetText ==
    /\ pc \in { "fresh", "typed" }
    /\ \E aText \in RoundStrings :
         /\ Commit(SetText(Ed, aText))
         /\ arg' = [op |-> "SetText", aText |-> aText, aLines |-> << >>]
    /\ pc' = "set"
    /\ res' = res

\* SetTextLines(aLines), called by the host
RoundTripSetTextLines ==
    /\ pc \in { "fresh", "typed" }
    /\ \E aLines \in RoundLineLists :
         /\ Commit(SetTextLines(Ed, aLines))
         /\ arg' = [op |-> "SetTextLines", aText |-> << >>, aLines |-> aLines]
    /\ pc' = "set"
    /\ res' = res

\* GetText(), called by the host
RoundTripGetText ==
    /\ pc = "set"
    /\ arg.op = "SetText"
    /\ res' = GetTextAll(Ed)
    /\ pc' = "got"
    /\ UNCHANGED << mLines, mState, mUndoBuffer, mUndoIndex, mTabSize,
                    mCursorPositionChanged, mDraggingSelection, mReadOnly,
                    mFind, mColor, fault, arg >>

\* GetTextLines(), called by the host
RoundTripGetTextLines ==
    /\ pc = "set"
    /\ arg.op = "SetTextLines"
    /\ res' = GetTextLines(Ed)
    /\ pc' = "got"
    /\ UNCHANGED << mLines, mState, mUndoBuffer, mUndoIndex, mTabSize,
                    mCursorPositionChanged, mDraggingSelection, mReadOnly,
                    mFind, mColor, fault, arg >>

NextRoundTrip ==
    \/ RoundTripType
    \/ RoundTripSetText
    \/ RoundTripSetTextLines
    \/ RoundTripGetText
    \/ RoundTripGetTextLines

SpecRoundTrip == InitRoundTrip /\ [][NextRoundTrip]_vars

\* aText without its carriage returns
WithoutCR(aText) == SelectSeq(aText, LAMBDA chr : chr # CR)

\* C40: GetText() after SetText(t) returns t without its '\r', for every
\* string t; GetTextLines() after SetTextLines(L) returns L for every
\* non-empty L; both setters leave the undo history empty with index 0 and
\* the find results marked dirty.
C40_SetGetRoundTrip ==
    /\ pc \in { "set", "got" } =>
          mUndoBuffer = << >> /\ mUndoIndex = 0 /\ mFind.mFindResultsDirty
    /\ pc = "got" /\ arg.op = "SetText" => res = WithoutCR(arg.aText)
    /\ pc = "got" /\ arg.op = "SetTextLines" /\ arg.aLines # << >> =>
          res = arg.aLines

=============================================================================
